---- MODULE Spec2Model ----
(***************************************************************************)
(* Model of the amoCRM <-> Google Sheets reconciliation engine             *)
(* (src/sync_service.py): the indexed table store (SheetSync), the sync    *)
(* state with dedup window and expiry (SyncService), both sync directions, *)
(* the token manager and the status-change event scan (AmoClient).         *)
(*                                                                         *)
(* Strings of the source are written in ASCII:                             *)
(*   "InProcess" = "В процессе"   "Courier" = "У курера"                   *)
(*   "Success"   = "Успешно"      "Refuse"  = "Отказ"                      *)
(*   "Thinking"  = "Раздумье"                                              *)
(* Time is counted in ticks of the variable clock; the durations of the    *)
(* source are scaled so that their order is kept:                          *)
(*   TTL < 2*TTL < lifetime("Success") < lifetime("Refuse").               *)
(***************************************************************************)
EXTENDS Integers, Sequences, FiniteSets, TLC

VARIABLES
    \* ---- table backend and SheetSync caches
    grid,        \* the active worksheet as get_all_values returns it (row 1 = header)
    archive,     \* tab names of the archived worksheets
    indexed,     \* ws_name in self._row_index
    rowIndex,    \* self._row_index[ws_name]: lead id -> row number
    rowCount,    \* self._row_count[ws_name]
    upserted,    \* history: lead id -> row data of the latest upsert_row into the active tab
    sheets,      \* the active tab name is a key of self._sheets
    sheetLock,   \* SheetSync.lock: "free" or the thread that holds it
    tabs,        \* the backend's tabs besides grid: whether a tab of the active name
                 \* exists, and the tab renamed last
    rpc,         \* the worker thread's position in rotate_to_archive
    hpc,         \* the webhook handler's position in upsert_row / update_status
    hLocal,      \* the handler's call and its local variables
    \* ---- status-change event scan
    evLog,       \* the event log the CRM returns
    evCreated,   \* created_lead_ids argument (NoSet = None)
    evFirst,     \* first_entry built by the scan
    evResult,    \* the returned set
    evDone,      \* the scan has run on evLog
    \* ---- time
    clock,       \* time.time()
    \* ---- token manager
    tpc,         \* per thread: where it stands in get_access_token
    tLocal,      \* per thread: its locals access_token, refresh_token, now
    tokStore,    \* TokenStore file: [access, refresh] (0 = empty string)
    tokCache,    \* AmoClient._cached_access_token, _token_validated_ts
    server,      \* the CRM's OAuth state
    authCode,    \* cfg.AMO_AUTH_CODE is set
    submitted,   \* history: refresh credential -> refresh requests carrying it (1, or 2 = several)
    \* ---- AmoClient requests
    apc,         \* per thread: where it stands in get / patch
    aLocal,      \* per thread: method, attempt, wake-up time, requests sent, waits, response
    reqLock,     \* holder of self._req_lock ("free" when nobody holds it)
    lastRequestTs, \* self._last_request_ts
    wire,        \* history: the latest request started towards the CRM
    shortGaps,   \* history: kinds of two consecutive requests started less than the delay apart
    \* ---- CRM (the environment of the engine)
    crm,         \* lead id -> current status id in the CRM
    crmOrder,    \* lead id -> order number stored in the CRM lead
    undelivered, \* lead id -> the webhook of its latest status change is still to come
    \* ---- SyncService
    known,       \* state["sheet_status_by_lead"]
    knownOrder,  \* state["sheet_order_number_by_lead"]
    expiry,      \* state["lead_expiry"]
    dedup,       \* self._webhook_dedup: <<lead id, status id>> -> time
    wpc,         \* the poll worker's next call: "expire" or "sync"
    backoff,     \* the poll worker's local variable backoff (seconds)
    dirty,       \* self._state_dirty
    disk,        \* the state file: [known, knownOrder, expiry]
    \* ---- history
    purged,      \* lead ids expire_finished_leads has forgotten in this run or before
    deliv,       \* <<lead id, status id>> -> the latest delivery less than TTL ago
    ret          \* how the latest observed handler call ended
varsRot    == <<sheets, sheetLock, tabs, rpc, hpc, hLocal>>
varsStore  == <<grid, archive, indexed, rowIndex, rowCount, upserted, varsRot>>
varsEvents == <<evLog, evCreated, evFirst, evResult, evDone>>
varsToken  == <<tpc, tLocal, tokStore, tokCache, server, authCode, submitted>>
varsCrm    == <<crm, crmOrder, undelivered>>
varsSync   == <<known, knownOrder, expiry, dedup, wpc, backoff, dirty, disk>>
varsHist   == <<purged, deliv, ret>>
varsEngine == <<varsCrm, varsSync, varsHist>>
varsClient == <<apc, aLocal, reqLock, lastRequestTs, wire, shortGaps>>
varsAmo    == <<varsToken, varsClient>>
vars == <<varsStore, varsEvents, clock, varsToken, varsClient, varsEngine>>

----------------------------------------------------------------------------
\* Small helpers on finite maps

Max(S) == CHOOSE x \in S : \A y \in S : y <= x
Min(S) == CHOOSE x \in S : \A y \in S : x <= y
EmptyMap == [k \in {} |-> 0]
Put(f, k, v) == [x \in DOMAIN f \cup {k} |-> IF x = k THEN v ELSE f[x]]
Drop(f, k) == [x \in DOMAIN f \ {k} |-> f[x]]

----------------------------------------------------------------------------
\* Bounds of the model

MaxInitRows == 2     \* data rows of the worksheet the store starts from
MaxArchives == 2     \* archive tab names available to rotate_to_archive

----------------------------------------------------------------------------
\* Table rows.  A row keeps the three columns the engine reads back:
\* COLUMNS[ID_COL_INDEX], COLUMNS[STATUS_COL_INDEX], COLUMNS[ORDER_NUM_COL_INDEX].

Entities == {"e1", "e2"}
SheetValues == {"InProcess", "Courier", "Success", "Refuse"}
OrderNumbers == {"", "n1"}

COLUMNS == [id |-> "ID", status |-> "Status", order |-> "OrderNo"]
BlankRow == [id |-> "", status |-> "", order |-> ""]
MkRow(i, s, o) == [id |-> i, status |-> s, order |-> o]

ArchiveNames == 1..MaxArchives

\* ws.update(values=[row_data], range_name="A<n>"): overwrite row n, growing the
\* grid with blank rows when n lies past its end.
RECURSIVE Pad(_, _)
Pad(g, n) == IF Len(g) >= n THEN g ELSE Pad(Append(g, BlankRow), n)
WriteRow(g, n, row) == [Pad(g, n) EXCEPT ![n] = row]
\* ws.update_cell(row, col, value) on the status column
WriteStatusCell(g, n, v) == [Pad(g, n) EXCEPT ![n].status = v]

----------------------------------------------------------------------------
\* SheetSync: the row index cache.  A sheet state is the record
\* [grid, indexed, rowIndex, rowCount].

Sheet(g, ix, ri, rc) == [grid |-> g, indexed |-> ix, rowIndex |-> ri, rowCount |-> rc]

\* _build_row_index: one pass over all_vals; the header (i = 0) is skipped, rows
\* with a blank id are skipped, a later row with the same id overwrites an
\* earlier one; _row_count = len(all_vals).
RECURSIVE BuildFrom(_, _, _)
BuildFrom(g, i, idx) ==
    IF i > Len(g) THEN idx
    ELSE IF i = 1 THEN BuildFrom(g, i + 1, idx)
    ELSE IF g[i].id # "" THEN BuildFrom(g, i + 1, Put(idx, g[i].id, i))
    ELSE BuildFrom(g, i + 1, idx)

_build_row_index(sh) ==
    [sh EXCEPT !.indexed = TRUE,
               !.rowIndex = BuildFrom(sh.grid, 1, EmptyMap),
               !.rowCount = Len(sh.grid)]

\* _get_row_index: build on first access only
_get_row_index(sh) == IF sh.indexed THEN sh ELSE _build_row_index(sh)

\* _invalidate_row_index
_invalidate_row_index(sh) ==
    [sh EXCEPT !.indexed = FALSE, !.rowIndex = EmptyMap, !.rowCount = 0]

\* find_row: the cached row number, 0 for None
find_row(sh, lead_id) ==
    LET s1 == _get_row_index(sh)
    IN  IF lead_id \in DOMAIN s1.rowIndex THEN s1.rowIndex[lead_id] ELSE 0

\* upsert_row with the append step keeping the index but not the row count
upsert_row_StaleCount(sh, row) ==
    LET s1 == _get_row_index(sh)
        row_num == IF row.id \in DOMAIN s1.rowIndex THEN s1.rowIndex[row.id] ELSE 0
        next_row == s1.rowCount + 1
    IN  IF row_num # 0
        THEN [s1 EXCEPT !.grid = WriteRow(s1.grid, row_num, row)]
        ELSE [s1 EXCEPT !.grid = WriteRow(s1.grid, next_row, row),
                        !.rowIndex = Put(s1.rowIndex, row.id, next_row)]

\* upsert_row that always appends (no lookup of the id in the index)
upsert_row_AlwaysAppend(sh, row) ==
    LET s1 == _get_row_index(sh)
        next_row == s1.rowCount + 1
    IN  [s1 EXCEPT !.grid = WriteRow(s1.grid, next_row, row),
                   !.rowIndex = Put(s1.rowIndex, row.id, next_row),
                   !.rowCount = next_row]

\* upsert_row: overwrite in place when the id is indexed, else write at
\* _row_count + 1 and extend the index and the count in memory.
upsert_row(sh, row) ==
    LET s1 == _get_row_index(sh)
        row_num == IF row.id \in DOMAIN s1.rowIndex THEN s1.rowIndex[row.id] ELSE 0
        next_row == s1.rowCount + 1
    IN  IF row_num # 0
        THEN [s1 EXCEPT !.grid = WriteRow(s1.grid, row_num, row)]
        ELSE [s1 EXCEPT !.grid = WriteRow(s1.grid, next_row, row),
                        !.rowIndex = Put(s1.rowIndex, row.id, next_row),
                        !.rowCount = next_row]

\* update_status: one cell write at the cached row number; nothing when the
\* id has no row.
update_status(sh, lead_id, status_name) ==
    LET s1 == _get_row_index(sh)
        row_num == find_row(sh, lead_id)
    IN  IF row_num = 0 THEN s1
        ELSE [s1 EXCEPT !.grid = WriteStatusCell(s1.grid, row_num, status_name)]

\* rotate_to_archive, sheet part: after the rename the caches of both names are
\* dropped and _get_or_create_sheet adds a fresh tab and writes the header.
rotate_to_archive(sh) == _invalidate_row_index([sh EXCEPT !.grid = <<COLUMNS>>])

CurSheet == Sheet(grid, indexed, rowIndex, rowCount)
SetSheet(sh) ==
    /\ grid' = sh.grid
    /\ indexed' = sh.indexed
    /\ rowIndex' = sh.rowIndex
    /\ rowCount' = sh.rowCount

----------------------------------------------------------------------------
\* AmoClient.fetch_order_event_lead_ids: the scan of the status-change log.
\* An event is [lead, before, after, ts]: entity_id, value_before / value_after
\* lead_status id, created_at.

MaxLogLen == 3       \* events in the log the CRM returns

EventTimes == {1, 2}
EvStatusIds == {1, 2, 4}
order_status_ids == {1, 2}
Events ==
    {[lead |-> l, before |-> b, after |-> a, ts |-> t] :
        l \in Entities, b \in EvStatusIds, a \in EvStatusIds, t \in EventTimes}

\* created_lead_ids: None, or a set of lead ids
NoSet == [given |-> FALSE, ids |-> {}]
SomeSet(S) == [given |-> TRUE, ids |-> S]

\* the loop body with the status-before test left out
ScanEvent_AnyEntry(log, i, first_entry) ==
    LET ev == log[i]
    IN  IF ev.after \in order_status_ids
        THEN IF ev.lead \notin DOMAIN first_entry \/ ev.ts < first_entry[ev.lead]
             THEN Put(first_entry, ev.lead, ev.ts)
             ELSE first_entry
        ELSE first_entry

\* one iteration of "for ev in events": record the event time when the event
\* enters the order set from outside it and is earlier than the recorded one
ScanEvent(log, i, first_entry) ==
    LET ev == log[i]
    IN  IF ev.after \in order_status_ids /\ ev.before \notin order_status_ids
        THEN IF ev.lead \notin DOMAIN first_entry \/ ev.ts < first_entry[ev.lead]
             THEN Put(first_entry, ev.lead, ev.ts)
             ELSE first_entry
        ELSE first_entry

RECURSIVE ScanEvents(_, _, _)
ScanEvents(log, i, first_entry) ==
    IF i > Len(log) THEN first_entry
    ELSE ScanEvents(log, i + 1, ScanEvent(log, i, first_entry))

\* result = set(first_entry.keys()), intersected with created_lead_ids when given
fetch_order_event_lead_ids(log, created_lead_ids) ==
    LET first_entry == ScanEvents(log, 1, EmptyMap)
    IN  IF ~created_lead_ids.given THEN DOMAIN first_entry
        ELSE DOMAIN first_entry \cap created_lead_ids.ids

----------------------------------------------------------------------------
\* Token manager (TokenStore, AmoClient.get_access_token, _refresh,
\* exchange_code).  Tokens and refresh credentials are numbered; 0 is the
\* empty string.  The CRM accepts one access token and one refresh credential
\* at a time: a refresh or a code exchange issues the next pair and retires
\* the credential it was given.

MaxGen == 3          \* token pairs the CRM issues in a run
MaxClock == 3        \* the clock stops here
TOKEN_CACHE_SEC == 2 \* "now - _token_validated_ts < 300", in ticks

Threads == {"t1", "t2"}
NoLocal == [access |-> 0, refresh |-> 0, now |-> 0]

\* _is_token_valid: False without a request when the token is empty, else
\* whether GET /api/v4/account answers 200
_is_token_valid(srv, access_token) ==
    access_token # 0 /\ srv.accessValid /\ srv.access = access_token

\* the CRM's answer to POST /oauth2/access_token with grant_type refresh_token
RefreshAccepted(srv, refresh_token) == refresh_token # 0 /\ srv.refresh = refresh_token
\* the next token pair
Issue(srv) ==
    [srv EXCEPT !.access = srv.gen + 1, !.refresh = srv.gen + 1,
                !.gen = srv.gen + 1, !.accessValid = TRUE]

----------------------------------------------------------------------------
\* SyncService: configuration of one pipeline, as _load_pipelines resolves it.
\* CRM statuses, by id:
\*   1  "Заказ без нумерации"   display "InProcess"  (the trigger status)
\*   2  "Заказ отправлен"        display "Courier"
\*   3  "Успешно реализовано"   display "Success"
\*   4  "Раздумье"               display "Thinking"

StatusIds == {1, 2, 3, 4}

\* the leads of the CRM
LeadIds == {"e1"}
\* the leads of the specifications with batches of two leads and sheets of two rows
BatchLeadIds == {"e1", "e2"}

\* status_id_to_display_name = STATUS_DISPLAY_MAP over the raw status names
status_id_to_display_name ==
    (1 :> "InProcess" @@ 2 :> "Courier" @@ 3 :> "Success" @@ 4 :> "Thinking")

\* pipeline_status_display_to_id[pipeline_id]
pipeline_status_display_to_id ==
    ("InProcess" :> 1 @@ "Courier" :> 2 @@ "Success" :> 3 @@ "Thinking" :> 4)

\* pipeline_status_name_to_id[pipeline_id], keyed by the raw names
pipeline_status_name_to_id ==
    ("ZakazBezNumeracii" :> 1 @@ "ZakazOtpravlen" :> 2 @@
     "UspeshnoRealizovano" :> 3 @@ "Razdumie" :> 4)

\* cfg.STATUS_MAP (DROPDOWN_STATUS_MAP_JSON): the dropdown value "Refuse" has
\* no status id configured (0).
STATUS_MAP == ("InProcess" :> 1 @@ "Courier" :> 2 @@ "Success" :> 3 @@ "Refuse" :> 0)

STATUS_DROPDOWN_OPTIONS == {"InProcess", "Courier", "Success", "Refuse"}
ORDER_NUM_FILLED_AMO_STATUS_DISPLAY == "Courier"
SHEET_STATUS_TO_AMO_DISPLAY ==
    ("InProcess" :> "InProcess" @@ "Courier" :> "Success" @@
     "Success" :> "Success" @@ "Refuse" :> "Refuse")
AMO_STATUS_TO_SHEET_OVERRIDE == ("Thinking" :> "Refuse")

\* dict.get(key, default)
Get(f, k, d) == IF k \in DOMAIN f THEN f[k] ELSE d

\* trigger_status_ids: statuses whose display name is the trigger's display name
trigger_status_ids == {sid \in StatusIds : status_id_to_display_name[sid] = "InProcess"}

\* terminal_status_id_to_name: statuses whose display name is a key of STATUS_MAP
terminal_status_id_to_name ==
    [sid \in {s \in StatusIds : status_id_to_display_name[s] \in DOMAIN STATUS_MAP}
        |-> status_id_to_display_name[sid]]

\* Times are counted in units of the dedup TTL; the two lifetimes keep their
\* order (Success shorter than Refuse, the second twice the first) and both
\* exceed twice the TTL, as 12 h and 24 h exceed 120 s.
WEBHOOK_DEDUP_TTL_SEC == 1
EXPIRY_SUCCESS == 3
EXPIRY_REFUSE == 6
_EXPIRY_SECONDS == ("Success" :> EXPIRY_SUCCESS @@ "Refuse" :> EXPIRY_REFUSE)

----------------------------------------------------------------------------
\* SyncService: dedup window and per-lead state.  The engine's state during a
\* handler is a record st with the fields the handler reads and writes;
\* st.flushes counts the writes of the state file the handler makes, st.muts
\* its calls of remember_* and forget_lead.

\* _is_duplicate_webhook that never reports a duplicate
_is_duplicate_webhook_Never(dd, lead_id, status_id, now) ==
    [dup |-> FALSE, dedup |-> Put(dd, <<lead_id, status_id>>, now)]

\* _is_duplicate_webhook that restarts the window of a duplicate
IsDuplicate_Sliding(ttl, dd, lead_id, status_id, now) ==
    [dup |-> <<lead_id, status_id>> \in DOMAIN dd
                /\ now - dd[<<lead_id, status_id>>] < ttl,
     dedup |-> Put(dd, <<lead_id, status_id>>, now)]

\* _is_duplicate_webhook that evicts nothing
IsDuplicate_NoEvict(ttl, dd, lead_id, status_id, now) ==
    IF <<lead_id, status_id>> \in DOMAIN dd /\ now - dd[<<lead_id, status_id>>] < ttl
    THEN [dup |-> TRUE, dedup |-> dd]
    ELSE [dup |-> FALSE, dedup |-> Put(dd, <<lead_id, status_id>>, now)]

\* _is_duplicate_webhook that tests the window and records nothing
IsDuplicate_Forgets(ttl, dd, lead_id, status_id, now) ==
    [dup |-> <<lead_id, status_id>> \in DOMAIN dd
                /\ now - dd[<<lead_id, status_id>>] < ttl,
     dedup |-> dd]

\* the body of _is_duplicate_webhook with self.cfg.WEBHOOK_DEDUP_TTL_SEC = ttl:
\* evict entries older than twice the TTL, report a duplicate when the key
\* was recorded less than TTL ago, else record now.
IsDuplicate(ttl, dd, lead_id, status_id, now) ==
    LET key == <<lead_id, status_id>>
        kept == [k \in {x \in DOMAIN dd : ~(now - dd[x] > ttl * 2)} |-> dd[k]]
    IN  IF key \in DOMAIN kept /\ now - kept[key] < ttl
        THEN [dup |-> TRUE, dedup |-> kept]
        ELSE [dup |-> FALSE, dedup |-> Put(kept, key, now)]

\* _is_duplicate_webhook in the engine's time unit
_is_duplicate_webhook(dd, lead_id, status_id, now) ==
    IsDuplicate(WEBHOOK_DEDUP_TTL_SEC, dd, lead_id, status_id, now)

\* _save_state: write the three maps to the state file
_save_state(st) ==
    [st EXCEPT !.disk = [known |-> st.known, knownOrder |-> st.knownOrder,
                         expiry |-> st.expiry],
               !.dirty = FALSE,
               !.flushes = @ + 1]

\* flush_state that writes whether or not the state is dirty
flush_state_Always(st) == _save_state(st)

\* flush_state: write only when the state is dirty
flush_state(st) == IF st.dirty THEN _save_state(st) ELSE st

remember_sheet_status(st, lead_id, status_name) ==
    [st EXCEPT !.known = Put(@, lead_id, status_name), !.dirty = TRUE,
               !.muts = @ + 1]
get_known_sheet_status(st, lead_id) == Get(st.known, lead_id, "")
remember_sheet_order_number(st, lead_id, order_number) ==
    [st EXCEPT !.knownOrder = Put(@, lead_id, order_number), !.dirty = TRUE,
               !.muts = @ + 1]
get_known_order_number(st, lead_id) == Get(st.knownOrder, lead_id, "")
remember_lead_expiry(st, lead_id, expiry_ts) ==
    [st EXCEPT !.expiry = Put(@, lead_id, expiry_ts), !.dirty = TRUE,
               !.muts = @ + 1]

\* is_lead_expired: an expiry is recorded and has passed
is_lead_expired(st, lead_id, now) ==
    lead_id \in DOMAIN st.expiry /\ now >= st.expiry[lead_id]

\* forget_lead: pop the lead from the three maps
forget_lead(st, lead_id) ==
    [st EXCEPT !.known = Drop(@, lead_id),
               !.knownOrder = Drop(@, lead_id),
               !.expiry = Drop(@, lead_id),
               !.dirty = TRUE,
               !.muts = @ + 1]

ExpiredLeads(st, now) == {lid \in DOMAIN st.expiry : now >= st.expiry[lid]}

\* expire_finished_leads: forget every lead whose expiry has passed
RECURSIVE ForgetAll(_, _)
ForgetAll(st, S) ==
    IF S = {} THEN st
    ELSE LET lid == CHOOSE x \in S : TRUE
         IN  ForgetAll(forget_lead(st, lid), S \ {lid})
expire_finished_leads(st, now) ==
    LET expired == ExpiredLeads(st, now)
    IN  IF expired # {} THEN flush_state(ForgetAll(st, expired)) ELSE st

\* _set_expiry_for_status
_set_expiry_for_status(st, lead_id, status_display, now) ==
    IF status_display \in DOMAIN _EXPIRY_SECONDS
    THEN remember_lead_expiry(st, lead_id, now + _EXPIRY_SECONDS[status_display])
    ELSE st

\* iter_lead_statuses: the data rows with a non-blank id, in sheet order
iter_lead_statuses(g) ==
    SelectSeq(SubSeq(g, 2, Len(g)), LAMBDA r : r.id # "")

\* bootstrap_sheet_state: remember status and order number of every row
RECURSIVE BootRows(_, _, _)
BootRows(st, rows, i) ==
    IF i > Len(rows) THEN st
    ELSE BootRows(remember_sheet_order_number(
                      remember_sheet_status(st, rows[i].id, rows[i].status),
                      rows[i].id, rows[i].order),
                  rows, i + 1)
bootstrap_sheet_state(st, g) == flush_state(BootRows(st, iter_lead_statuses(g), 1))

----------------------------------------------------------------------------
\* SyncService.process_webhook_leads.  A lead of the batch is the record
\* [id, status_id, fetch, sheet]: the payload's id and status id, whether the
\* GET of the lead succeeds ("ok") or raises ("fail"), and whether the
\* requests to the spreadsheet made for it succeed ("ok") or raise ("raise").
\* amo is what the CRM holds: [crm, crmOrder].  st.raised holds once an
\* exception has left the loop; st.seen counts the leads the loop has taken.  st.w counts the writes made to the table, st.written is
\* the handler's tally of the same name.

\* an exception leaves the handler
Raise(st) == [st EXCEPT !.raised = TRUE]

\* upsert_row always sends a request to the spreadsheet; update_status sends
\* one to build the row index when there is none, and one to write the cell
\* when the row is found
UpsertRaises(st, lead) == lead.sheet = "raise"
UpdateRaises(st, lead) ==
    lead.sheet = "raise" /\ (~st.sh.indexed \/ find_row(st.sh, lead.id) # 0)

\* the trigger branch: build_row from full_lead and upsert it
TriggerBranch(st, lead, status_id, amo) ==
    LET current_status_name == Get(status_id_to_display_name, status_id, "InProcess")
        order_number == IF lead.fetch = "ok" THEN amo.crmOrder[lead.id] ELSE ""
        row == MkRow(lead.id, current_status_name, order_number)
        s1 == [st EXCEPT !.sh = upsert_row(st.sh, row), !.w = @ + 1,
                         !.written = @ + 1]
    IN  IF UpsertRaises(st, lead) THEN Raise(st)
        ELSE remember_sheet_order_number(
                 remember_sheet_status(s1, lead.id, current_status_name), lead.id, "")

\* the write shared by the terminal branch and the tracked branch
WriteStatus(st, lead, sheet_display, now) ==
    LET found == find_row(st.sh, lead.id) # 0
        s1 == [st EXCEPT !.sh = update_status(st.sh, lead.id, sheet_display),
                         !.w = IF found THEN @ + 1 ELSE @,
                         !.written = @ + 1]
    IN  IF UpdateRaises(st, lead) THEN Raise(st)
        ELSE _set_expiry_for_status(
                 remember_sheet_status(s1, lead.id, sheet_display),
                 lead.id, sheet_display, now)

\* the terminal branch and the tracked branch, each behind its guard
StatusBranch(st, lead, display_name, known_status, now) ==
    LET sheet_display == Get(AMO_STATUS_TO_SHEET_OVERRIDE, display_name, display_name)
    IN  IF sheet_display = "Courier" /\ known_status = "InProcess"
        THEN st
        ELSE WriteStatus(st, lead, sheet_display, now)

\* the loop body with the terminal test before the trigger test
ProcessLead_TerminalFirst(st, lead, now, amo) ==
    IF lead.id = "" THEN st
    ELSE
    LET dd == _is_duplicate_webhook(st.dedup, lead.id, lead.status_id, now)
        s0 == [st EXCEPT !.dedup = dd.dedup]
        is_trigger == lead.status_id \in trigger_status_ids
        is_terminal == lead.status_id \in DOMAIN terminal_status_id_to_name
        known_status == get_known_sheet_status(s0, lead.id)
        status_id == IF lead.fetch = "ok" THEN amo.crm[lead.id] ELSE lead.status_id
    IN  IF dd.dup THEN s0
        ELSE IF is_lead_expired(s0, lead.id, now) THEN s0
        ELSE IF ~(is_trigger \/ is_terminal \/ known_status # "") THEN s0
        ELSE IF status_id \in DOMAIN terminal_status_id_to_name
            THEN StatusBranch(s0, lead, terminal_status_id_to_name[status_id],
                              known_status, now)
        ELSE IF status_id \in trigger_status_ids
            THEN TriggerBranch(s0, lead, status_id, amo)
        ELSE IF known_status # ""
            THEN StatusBranch(s0, lead, Get(status_id_to_display_name, status_id, "?"),
                              known_status, now)
        ELSE s0

\* the loop body for one lead
ProcessLead(st, lead, now, amo) ==
    IF lead.id = "" THEN st
    ELSE
    LET dd == _is_duplicate_webhook(st.dedup, lead.id, lead.status_id, now)
        s0 == [st EXCEPT !.dedup = dd.dedup]
        is_trigger == lead.status_id \in trigger_status_ids
        is_terminal == lead.status_id \in DOMAIN terminal_status_id_to_name
        known_status == get_known_sheet_status(s0, lead.id)
        status_id == IF lead.fetch = "ok" THEN amo.crm[lead.id] ELSE lead.status_id
    IN  IF dd.dup THEN s0
        ELSE IF is_lead_expired(s0, lead.id, now) THEN s0
        ELSE IF ~(is_trigger \/ is_terminal \/ known_status # "") THEN s0
        ELSE IF status_id \in trigger_status_ids
            THEN TriggerBranch(s0, lead, status_id, amo)
        ELSE IF status_id \in DOMAIN terminal_status_id_to_name
            THEN StatusBranch(s0, lead, terminal_status_id_to_name[status_id],
                              known_status, now)
        ELSE IF known_status # ""
            THEN StatusBranch(s0, lead, Get(status_id_to_display_name, status_id, "?"),
                              known_status, now)
        ELSE s0

\* history kept beside the loop: w, the table writes of this delivery;
\* replay, whether the same (id, status id) was delivered less than TTL ago;
\* pair, the writes of that delivery and this one together
Observe(st0, st1, lead, now) ==
    LET key == <<lead.id, lead.status_id>>
        dw == st1.w - st0.w
        replay == key \in DOMAIN st0.deliv
        pair == IF replay THEN st0.deliv[key].w + dw ELSE dw
    IN  IF lead.id = "" THEN st1
        ELSE [st1 EXCEPT !.deliv = Put(@, key, [ts |-> now, w |-> dw,
                                                replay |-> replay, pair |-> pair])]

RECURSIVE ProcessLeads(_, _, _, _, _)
ProcessLeads(st, leads, i, now, amo) ==
    IF i > Len(leads) \/ st.raised THEN st
    ELSE LET s0 == [st EXCEPT !.seen = @ + 1]
         IN  ProcessLeads(Observe(s0, ProcessLead(s0, leads[i], now, amo), leads[i], now),
                          leads, i + 1, now, amo)

\* the loop, then flush_state, unless an exception has left the handler
process_webhook_leads(st, leads, now, amo) ==
    LET s1 == ProcessLeads(st, leads, 1, now, amo)
    IN  IF s1.raised THEN s1 ELSE flush_state(s1)

----------------------------------------------------------------------------
\* SyncService.sync_sheet_to_amo.  st holds the state maps, the CRM's crm and
\* crmOrder, and what the cycle has done: patched, the (lead id, status id) of
\* the PATCH requests sent; dispatched, the leads moved by the order-number
\* trigger; examined, the ids of the rows the loop has taken.  failing is the
\* set of leads whose CRM calls raise in this cycle (the GET of the lead, or
\* the PATCH, which then changes nothing).

Patch(st, lead_id, status_id) ==
    [st EXCEPT !.crm[lead_id] = status_id,
               !.patched = @ \cup {<<lead_id, status_id>>}]

\* the status id for the order-number trigger (0 = not found)
OrderFilledStatusId ==
    LET by_display == Get(pipeline_status_display_to_id, ORDER_NUM_FILLED_AMO_STATUS_DISPLAY, 0)
    IN  IF by_display # 0 THEN by_display
        ELSE Get(pipeline_status_name_to_id, "ZakazOtpravlen", 0)

\* the lookup of the status trigger with the static map asked first
ResolveIn_StaticFirst(display_to_id, name_to_id, static_map, status_name) ==
    LET amo_lookup == Get(SHEET_STATUS_TO_AMO_DISPLAY, status_name, status_name)
        t1 == Get(display_to_id, amo_lookup, 0)
        t2 == Get(name_to_id, amo_lookup, 0)
        t3 == Get(static_map, amo_lookup, 0)
    IN  IF t3 # 0 THEN t3 ELSE IF t2 # 0 THEN t2 ELSE t1

\* lines 1340-1346: the three-tier lookup of the status trigger in the maps
\* of the lead's pipeline and the static map (0 = no mapping)
ResolveIn(display_to_id, name_to_id, static_map, status_name) ==
    LET amo_lookup == Get(SHEET_STATUS_TO_AMO_DISPLAY, status_name, status_name)
        t1 == Get(display_to_id, amo_lookup, 0)
        t2 == Get(name_to_id, amo_lookup, 0)
        t3 == Get(static_map, amo_lookup, 0)
    IN  IF t1 # 0 THEN t1 ELSE IF t2 # 0 THEN t2 ELSE t3

\* the lookup in the configuration of the engine specifications
ResolveStatusId(status_name) ==
    ResolveIn(pipeline_status_display_to_id, pipeline_status_name_to_id, STATUS_MAP,
              status_name)

\* order-number trigger of one row
\* the order-number trigger's test without the test that the lead is tracked
OrderFilled_Untracked(st, item) ==
    get_known_order_number(st, item.id) = "" /\ item.order # ""

OrderFilled(st, item) ==
    LET known_order == get_known_order_number(st, item.id)
        order_was_tracked == item.id \in DOMAIN st.knownOrder
    IN  order_was_tracked /\ known_order = "" /\ item.order # ""

SyncOrder(st, item, failing) ==
    LET lead_id == item.id
        status_id == OrderFilledStatusId
        s1 == IF status_id # 0
              THEN [Patch(st, lead_id, status_id) EXCEPT
                        !.crmOrder[lead_id] = item.order,
                        !.dispatched = @ \cup {lead_id}]
              ELSE st
    IN  IF OrderFilled(st, item)
        THEN IF lead_id \in failing THEN st
             ELSE remember_sheet_order_number(s1, lead_id, item.order)
        ELSE st

\* status trigger of one row that records the value before its CRM calls
SyncStatus_RecordsFirst(st, item, failing) ==
    LET lead_id == item.id
        status_name == item.status
        known_ == get_known_sheet_status(st, lead_id)
        status_id == ResolveStatusId(status_name)
        s1 == remember_sheet_status(st, lead_id, status_name)
    IN  IF status_name \notin DOMAIN STATUS_MAP THEN st
        ELSE IF known_ = status_name THEN st
        ELSE IF lead_id \in failing THEN s1
        ELSE IF status_id = 0 THEN s1
        ELSE Patch(s1, lead_id, status_id)

\* status trigger of one row
SyncStatus(st, item, failing) ==
    LET lead_id == item.id
        status_name == item.status
        known_ == get_known_sheet_status(st, lead_id)
        status_id == ResolveStatusId(status_name)
    IN  IF status_name \notin DOMAIN STATUS_MAP THEN st
        ELSE IF known_ = status_name THEN st
        ELSE IF lead_id \in failing THEN st
        ELSE IF status_id = 0 THEN st
        ELSE remember_sheet_status(Patch(st, lead_id, status_id), lead_id, status_name)

\* a CRM call made for the row raises
RowRaises(st, item, failing) ==
    /\ item.id \in failing
    /\ \/ OrderFilled(st, item)
       \/ item.status \in DOMAIN STATUS_MAP
            /\ get_known_sheet_status(st, item.id) # item.status

SyncRow(st, item, failing) ==
    SyncStatus(SyncOrder([st EXCEPT !.examined = @ \cup {item.id}], item, failing),
               item, failing)

\* the loop, were it left by the first CRM call that raises
RECURSIVE SyncRows_LeftByException(_, _, _, _)
SyncRows_LeftByException(st, rows, i, failing) ==
    IF i > Len(rows) THEN st
    ELSE IF RowRaises(st, rows[i], failing)
         THEN [st EXCEPT !.examined = @ \cup {rows[i].id}]
         ELSE SyncRows_LeftByException(SyncRow(st, rows[i], failing),
                                       rows, i + 1, failing)

RECURSIVE SyncRows(_, _, _, _)
SyncRows(st, rows, i, failing) ==
    IF i > Len(rows) THEN st
    ELSE SyncRows(SyncRow(st, rows[i], failing), rows, i + 1, failing)

\* the loop over iter_lead_statuses, then flush_state
sync_sheet_to_amo(st, g, failing) ==
    flush_state(SyncRows(st, iter_lead_statuses(g), 1, failing))

----------------------------------------------------------------------------
\* The parts of the state a specification does not use stay as constructed.

\* a thread outside get / patch, and the wire before the first request
NoCall == [method |-> "", attempt |-> 0, wake |-> 0, sent |-> 0, waits |-> <<>>,
           status |-> 0]
NoRequest == [any |-> FALSE, ts |-> 0, kind |-> ""]

\* the state _load_state gives when there is no state file
NoState == [known |-> EmptyMap, knownOrder |-> EmptyMap, expiry |-> EmptyMap]

\* no handler call observed yet
NoRet == [op |-> "none", raised |-> FALSE, flushes |-> 0, seen |-> 0]

EventsIdle ==
    /\ evLog = <<>>
    /\ evCreated = NoSet
    /\ evFirst = EmptyMap
    /\ evResult = {}
    /\ evDone = FALSE

\* no call of the handler in progress
NoWrite == [op |-> "", row |-> BlankRow, raised |-> FALSE, title |-> "", landed |-> "",
            renames |-> 0]

\* no rotation and no write in progress, the active tab there, no handle cached
RotIdle ==
    /\ sheets = FALSE
    /\ sheetLock = "free"
    /\ tabs = [main |-> TRUE, arch |-> <<>>, late |-> 0]
    /\ rpc = "idle"
    /\ hpc = "idle"
    /\ hLocal = NoWrite

StoreIdle ==
    /\ grid = <<COLUMNS>>
    /\ archive = {}
    /\ indexed = FALSE
    /\ rowIndex = EmptyMap
    /\ rowCount = 0
    /\ upserted = EmptyMap
    /\ RotIdle

TokenIdle ==
    /\ tpc = [t \in Threads |-> "idle"]
    /\ tLocal = [t \in Threads |-> NoLocal]
    /\ tokStore = [access |-> 0, refresh |-> 0]
    /\ tokCache = [token |-> 0, ts |-> 0]
    /\ server = [access |-> 0, refresh |-> 0, gen |-> 0, accessValid |-> FALSE, codeUsed |-> FALSE]
    /\ authCode = FALSE
    /\ submitted = EmptyMap

ClientIdle ==
    /\ apc = [t \in Threads |-> "idle"]
    /\ aLocal = [t \in Threads |-> NoCall]
    /\ reqLock = "free"
    /\ lastRequestTs = 0
    /\ wire = NoRequest
    /\ shortGaps = {}

EngineIdle ==
    /\ crm = [e \in BatchLeadIds |-> 4]
    /\ crmOrder = [e \in BatchLeadIds |-> ""]
    /\ undelivered = [e \in BatchLeadIds |-> FALSE]
    /\ known = EmptyMap
    /\ knownOrder = EmptyMap
    /\ expiry = EmptyMap
    /\ dedup = EmptyMap
    /\ wpc = "expire"
    /\ backoff = 0
    /\ dirty = FALSE
    /\ disk = NoState
    /\ purged = {}
    /\ deliv = EmptyMap
    /\ ret = NoRet

----------------------------------------------------------------------------
\* Specification of the table store: sequential upsert_row / update_status /
\* rotate_to_archive calls on a worksheet that starts with the header and
\* rows of unique ids (possibly with blank-id rows between them).

RowIds(g) == {g[i].id : i \in 2..Len(g)} \ {""}
UniqueIds(g) ==
    \A i, j \in 2..Len(g) : (i # j /\ g[i].id # "") => g[i].id # g[j].id

InitRows == {MkRow(i, "InProcess", "") : i \in Entities \cup {""}}
RECURSIVE SeqsUpTo(_, _)
SeqsUpTo(S, n) ==
    IF n = 0 THEN {<<>>}
    ELSE LET shorter == SeqsUpTo(S, n - 1)
         IN  shorter \cup {Append(s, x) : s \in {t \in shorter : Len(t) = n - 1}, x \in S}
\* get_all_values drops trailing empty rows, so a grid never ends in a blank-id row
InitGrids ==
    {<<COLUMNS>> \o s : s \in {t \in SeqsUpTo(InitRows, MaxInitRows) :
        /\ UniqueIds(<<COLUMNS>> \o t)
        /\ (Len(t) > 0 => t[Len(t)].id # "")}}

InitStore ==
    /\ grid \in InitGrids
    /\ archive = {}
    /\ indexed = FALSE
    /\ rowIndex = EmptyMap
    /\ rowCount = 0
    /\ upserted = EmptyMap
    /\ RotIdle
    /\ EventsIdle /\ TokenIdle /\ ClientIdle /\ EngineIdle /\ clock = 0

StoreUpsert ==
    \E i \in Entities, s \in {"InProcess", "Success"}, o \in OrderNumbers :
        /\ SetSheet(upsert_row(CurSheet, MkRow(i, s, o)))
        /\ upserted' = Put(upserted, i, MkRow(i, s, o))
        /\ UNCHANGED <<archive, varsRot, varsEvents, clock, varsAmo, varsEngine>>

StoreUpdateStatus ==
    \E i \in Entities, s \in {"Courier", "Refuse"} :
        /\ SetSheet(update_status(CurSheet, i, s))
        /\ upserted' = IF i \in DOMAIN upserted /\ find_row(CurSheet, i) # 0
                       THEN [upserted EXCEPT ![i].status = s] ELSE upserted
        /\ UNCHANGED <<archive, varsRot, varsEvents, clock, varsAmo, varsEngine>>

\* rotate_to_archive(name): ws.update_title raises when a tab of that name
\* exists, before any cache is touched.
StoreRotate ==
    \E name \in ArchiveNames :
        /\ name \notin archive
        /\ archive' = archive \cup {name}
        /\ SetSheet(rotate_to_archive(CurSheet))
        /\ upserted' = EmptyMap
        /\ UNCHANGED <<varsRot, varsEvents, clock, varsAmo, varsEngine>>

NextStore == StoreUpsert \/ StoreUpdateStatus \/ StoreRotate
SpecStore == InitStore /\ [][NextStore]_vars

----------------------------------------------------------------------------
\* C2  At-most-one-row: after any sequential series of upsert_row calls on a
\* worksheet that started with a header and unique ids, the active worksheet
\* holds at most one row per lead id, and the row of an id upserted into it
\* holds the values of the latest upsert for that id.
RowsOf(g, i) == {n \in 2..Len(g) : g[n].id = i}
C2_AtMostOneRow ==
    /\ \A i \in Entities : Cardinality(RowsOf(grid, i)) <= 1
    /\ \A i \in DOMAIN upserted :
          /\ Cardinality(RowsOf(grid, i)) = 1
          /\ \A n \in RowsOf(grid, i) : grid[n] = upserted[i]
\* an id upserted twice with different values into a worksheet of two ids
C2_Witness ==
    /\ DOMAIN upserted = Entities
    /\ upserted["e1"].order = "n1"
    /\ upserted["e1"].status = "Success"
    /\ Len(grid) >= 3

\* C6  Row-index correctness: after any sequence of upsert_row and
\* rotate_to_archive calls the cached id -> row map, whenever present, equals
\* the map _build_row_index yields from the current grid, and the cached row
\* count equals the number of occupied rows of the grid.
C6_RowIndexCorrect ==
    indexed =>
        /\ rowIndex = BuildFrom(grid, 1, EmptyMap)
        /\ rowCount = Len(grid)
\* the index was rebuilt after a rotation and then extended by appends
C6_Witness ==
    /\ archive # {}
    /\ indexed
    /\ DOMAIN rowIndex = Entities

----------------------------------------------------------------------------
\* Specification of the event scan: the log grows, the scan runs on it.

InitEvents == EventsIdle /\ StoreIdle /\ TokenIdle /\ ClientIdle /\ EngineIdle /\ clock = 0

\* the CRM appends a status-change event to the log of the window
EvAppend ==
    \E ev \in Events :
        /\ Len(evLog) < MaxLogLen
        /\ ev.before # ev.after
        /\ evLog' = Append(evLog, ev)
        /\ evDone' = FALSE
        /\ evFirst' = EmptyMap
        /\ evResult' = {}
        /\ evCreated' = NoSet
        /\ UNCHANGED <<varsStore, clock, varsAmo, varsEngine>>

\* one call of fetch_order_event_lead_ids on the current log
EvFetch ==
    \E created \in {NoSet, SomeSet({"e1"})} :
        /\ ~evDone
        /\ evCreated' = created
        /\ evFirst' = ScanEvents(evLog, 1, EmptyMap)
        /\ evResult' = fetch_order_event_lead_ids(evLog, created)
        /\ evDone' = TRUE
        /\ UNCHANGED <<evLog, varsStore, clock, varsAmo, varsEngine>>

NextEvents == EvAppend \/ EvFetch
SpecEvents == InitEvents /\ [][NextEvents]_vars

\* C7  First-entry detection: the scan reports a lead (once: the result is a
\* set) exactly when the log holds an event of that lead whose status-before
\* is outside the order set and whose status-after is inside it; hops between
\* two order statuses never cause a report; the recorded entry time is the
\* earliest such event's time.  (With created_lead_ids given, the result is
\* that set cut down to created_lead_ids.)
Entering(log, l) ==
    {i \in 1..Len(log) : /\ log[i].lead = l
                         /\ log[i].after \in order_status_ids
                         /\ log[i].before \notin order_status_ids}
C7_FirstEntry ==
    evDone =>
        /\ ~evCreated.given => evResult = {l \in Entities : Entering(evLog, l) # {}}
        /\ evCreated.given =>
              evResult = {l \in evCreated.ids : Entering(evLog, l) # {}}
        /\ DOMAIN evFirst = {l \in Entities : Entering(evLog, l) # {}}
        /\ \A l \in DOMAIN evFirst :
              /\ \E i \in Entering(evLog, l) : evLog[i].ts = evFirst[l]
              /\ \A i \in Entering(evLog, l) : evFirst[l] <= evLog[i].ts
\* e1 enters the order set twice, the later event first in the log, with a
\* hop in between; e1 is reported, at the earlier time
C7_Witness ==
    /\ evDone /\ ~evCreated.given
    /\ Len(evLog) = 3
    /\ \A i \in 1..3 : evLog[i].lead = "e1"
    /\ evLog[1].before = 4 /\ evLog[1].after = 1 /\ evLog[1].ts = 2
    /\ evLog[2].before = 1 /\ evLog[2].after = 2
    /\ evLog[3].before = 4 /\ evLog[3].after = 2 /\ evLog[3].ts = 1
    /\ evResult = {"e1"}
    /\ evFirst["e1"] = 1
\* only hops inside the order set: nothing is reported
C7_WitnessHop ==
    /\ evDone /\ ~evCreated.given
    /\ Len(evLog) = 2
    /\ \A i \in 1..2 : evLog[i].before \in order_status_ids /\ evLog[i].after \in order_status_ids
    /\ evResult = {}

----------------------------------------------------------------------------
\* Specification of the token manager: two threads call get_access_token
\* (the dashboard fetches leads and events on two pool threads, the poll
\* worker and the request handlers call the client as well).  A thread's
\* steps are separated where it waits for the network or reads shared state.

othersToken == <<varsStore, varsEvents, varsEngine, varsClient>>

InitToken ==
    /\ StoreIdle /\ EventsIdle /\ EngineIdle /\ ClientIdle
    /\ clock = 0
    /\ tpc = [t \in Threads |-> "idle"]
    /\ tLocal = [t \in Threads |-> NoLocal]
    /\ tokStore \in {[access |-> 1, refresh |-> r] : r \in {0, 1}}
    /\ tokCache = [token |-> 0, ts |-> 0]
    /\ server = [access |-> 1, refresh |-> 1, gen |-> 1, accessValid |-> TRUE, codeUsed |-> FALSE]
    /\ authCode \in BOOLEAN
    /\ submitted = EmptyMap

\* get_access_token, lines 303-305: return the cached token while it is fresh
TokStart(t) ==
    /\ tpc[t] = "idle"
    /\ IF tokCache.token # 0 /\ clock - tokCache.ts < TOKEN_CACHE_SEC
       THEN UNCHANGED <<tpc, tLocal>>
       ELSE /\ tpc' = [tpc EXCEPT ![t] = "load"]
            /\ tLocal' = [tLocal EXCEPT ![t] = [NoLocal EXCEPT !.now = clock]]
    /\ UNCHANGED <<clock, tokStore, tokCache, server, authCode, submitted, othersToken>>

\* lines 307-309: tokens = self._token_data() (TokenStore.load, under its lock)
TokLoad(t) ==
    /\ tpc[t] = "load"
    /\ tLocal' = [tLocal EXCEPT ![t].access = tokStore.access, ![t].refresh = tokStore.refresh]
    /\ tpc' = [tpc EXCEPT ![t] = "probe"]
    /\ UNCHANGED <<clock, tokStore, tokCache, server, authCode, submitted, othersToken>>

\* lines 311-325: the validity probe and what follows it up to the request
\* that is sent next: none (valid token, or no refresh credential and no
\* code: RuntimeError), the code exchange, or the refresh
TokProbe(t) ==
    /\ tpc[t] = "probe"
    /\ IF _is_token_valid(server, tLocal[t].access)
       THEN /\ tokCache' = [token |-> tLocal[t].access, ts |-> tLocal[t].now]
            /\ tpc' = [tpc EXCEPT ![t] = "idle"]
            /\ UNCHANGED submitted
       ELSE IF tLocal[t].refresh = 0 /\ authCode
       THEN /\ tpc' = [tpc EXCEPT ![t] = "exchanging"]
            /\ UNCHANGED <<tokCache, submitted>>
       ELSE IF tLocal[t].refresh = 0
       THEN /\ tpc' = [tpc EXCEPT ![t] = "idle"]
            /\ UNCHANGED <<tokCache, submitted>>
       ELSE /\ tpc' = [tpc EXCEPT ![t] = "refreshing"]
            /\ submitted' = Put(submitted, tLocal[t].refresh,
                                IF tLocal[t].refresh \in DOMAIN submitted THEN 2 ELSE 1)
            /\ UNCHANGED tokCache
    /\ UNCHANGED <<clock, tLocal, tokStore, server, authCode, othersToken>>

\* _refresh, lines 289-299, and get_access_token, lines 326-328: the answer
\* to the refresh request; on 200 the pair is saved and cached, else RuntimeError
TokRefreshDone(t) ==
    /\ tpc[t] = "refreshing"
    /\ IF RefreshAccepted(server, tLocal[t].refresh) /\ server.gen < MaxGen
       THEN /\ server' = Issue(server)
            /\ tokStore' = [access |-> server.gen + 1, refresh |-> server.gen + 1]
            /\ tokCache' = [token |-> server.gen + 1, ts |-> clock]
       ELSE UNCHANGED <<server, tokStore, tokCache>>
    /\ tpc' = [tpc EXCEPT ![t] = "idle"]
    /\ UNCHANGED <<clock, tLocal, authCode, submitted, othersToken>>

\* exchange_code, lines 357-363, and get_access_token, lines 318-324
TokExchangeDone(t) ==
    /\ tpc[t] = "exchanging"
    /\ IF ~server.codeUsed /\ server.gen < MaxGen
       THEN /\ server' = [Issue(server) EXCEPT !.codeUsed = TRUE]
            /\ tokStore' = [access |-> server.gen + 1, refresh |-> server.gen + 1]
            /\ tokCache' = [token |-> server.gen + 1, ts |-> clock]
       ELSE UNCHANGED <<server, tokStore, tokCache>>
    /\ tpc' = [tpc EXCEPT ![t] = "idle"]
    /\ UNCHANGED <<clock, tLocal, authCode, submitted, othersToken>>

\* the CRM retires the access token (its lifetime ended)
TokExpire ==
    /\ server.accessValid
    /\ server' = [server EXCEPT !.accessValid = FALSE]
    /\ UNCHANGED <<clock, tpc, tLocal, tokStore, tokCache, authCode, submitted, othersToken>>

TokTick ==
    /\ clock < MaxClock
    /\ clock' = clock + 1
    /\ UNCHANGED <<varsToken, othersToken>>

NextToken ==
    \/ \E t \in Threads : TokStart(t)
    \/ \E t \in Threads : TokLoad(t)
    \/ \E t \in Threads : TokProbe(t)
    \/ \E t \in Threads : TokRefreshDone(t)
    \/ \E t \in Threads : TokExchangeDone(t)
    \/ TokExpire
    \/ TokTick
SpecToken == InitToken /\ [][NextToken]_vars

\* C10  Token refresh mutual exclusion: with two threads in get_access_token
\* while the stored access token is invalid, at most one refresh or code
\* exchange request is in flight at any time, and no refresh credential is
\* submitted twice.
InFlight == {t \in Threads : tpc[t] \in {"refreshing", "exchanging"}}
C10_RefreshExclusive ==
    /\ Cardinality(InFlight) <= 1
    /\ \A r \in DOMAIN submitted : submitted[r] <= 1

----------------------------------------------------------------------------
\* Specification Spec: the reconciliation engine.  Webhook requests run one
\* at a time on the event loop; the poll worker alternates
\* expire_finished_leads and sync_sheet_to_amo; the CRM's users and the
\* sheet's operators act in between; the process may be restarted.  Time
\* advances in steps longer than twice the dedup TTL: what happens between two
\* steps happens within one TTL.  Operators edit status cells; the order
\* number cells stay as the webhooks wrote them.

MaxTime == 6        \* the clock stops here
LongStep == 2 * WEBHOOK_DEDUP_TTL_SEC + 1

Leads ==
    {[id |-> i, status_id |-> s, fetch |-> f, sheet |-> "ok"] :
        i \in LeadIds, s \in StatusIds, f \in {"ok", "fail"}}
    \cup {[id |-> "", status_id |-> 1, fetch |-> "ok", sheet |-> "ok"]}
Batches == {<<l>> : l \in Leads}

Init == StoreIdle /\ EventsIdle /\ TokenIdle /\ ClientIdle /\ EngineIdle /\ clock = 0

othersEngine == <<archive, varsRot, upserted, varsEvents, varsAmo>>

\* the notification of e's current CRM status, with the CRM and the
\* spreadsheet answering
Genuine(e) == [id |-> e, status_id |-> crm[e], fetch |-> "ok", sheet |-> "ok"]

\* a CRM user moves a lead to another status
CrmMove(e, s) ==
    /\ crm[e] # s
    /\ crm' = [crm EXCEPT ![e] = s]
    /\ UNCHANGED <<varsStore, varsSync, crmOrder, varsHist, clock, varsEvents, varsAmo>>

CrmChange(e, s) == CrmMove(e, s) /\ UNCHANGED undelivered

\* POST /webhook/amocrm: process_webhook_leads on one batch
WebhookResult(leads) ==
    process_webhook_leads(
        [sh |-> CurSheet, known |-> known, knownOrder |-> knownOrder,
         expiry |-> expiry, dedup |-> dedup, dirty |-> dirty, disk |-> disk,
         w |-> 0, written |-> 0, flushes |-> 0, muts |-> 0, raised |-> FALSE,
         seen |-> 0,
         deliv |-> deliv],
        leads, clock, [crm |-> crm, crmOrder |-> crmOrder])

\* what the handler leaves behind
WebhookDoes(st1) ==
    /\ SetSheet(st1.sh)
    /\ known' = st1.known
    /\ knownOrder' = st1.knownOrder
    /\ expiry' = st1.expiry
    /\ dedup' = st1.dedup
    /\ dirty' = st1.dirty
    /\ disk' = st1.disk
    /\ UNCHANGED <<crm, crmOrder, wpc, backoff, purged, clock, othersEngine>>

Webhook(leads) == \E st1 \in {WebhookResult(leads)} : WebhookDoes(st1)

Push(leads) == Webhook(leads) /\ UNCHANGED <<deliv, undelivered, ret>>

\* worker: expire_finished_leads
WorkerExpire ==
    LET st0 == [known |-> known, knownOrder |-> knownOrder, expiry |-> expiry,
                dirty |-> dirty, disk |-> disk, flushes |-> 0, muts |-> 0]
    IN  \E st1 \in {expire_finished_leads(st0, clock)} :
        /\ wpc = "expire"
        /\ wpc' = "sync"
        /\ UNCHANGED backoff
        /\ known' = st1.known
        /\ knownOrder' = st1.knownOrder
        /\ expiry' = st1.expiry
        /\ dirty' = st1.dirty
        /\ disk' = st1.disk
        /\ purged' = purged \cup ExpiredLeads(st0, clock)
        /\ UNCHANGED <<varsStore, varsCrm, dedup, deliv, ret, clock, varsEvents, varsAmo>>

\* worker: sync_sheet_to_amo
SyncResult(failing) ==
    sync_sheet_to_amo(
        [known |-> known, knownOrder |-> knownOrder, expiry |-> expiry,
         crm |-> crm, crmOrder |-> crmOrder, dirty |-> dirty, disk |-> disk,
         patched |-> {}, dispatched |-> {}, examined |-> {}, flushes |-> 0,
         muts |-> 0],
        grid, failing)

\* what the cycle leaves behind
SyncDoes(st1) ==
    /\ known' = st1.known
    /\ knownOrder' = st1.knownOrder
    /\ crm' = st1.crm
    /\ crmOrder' = st1.crmOrder
    /\ dirty' = st1.dirty
    /\ disk' = st1.disk
    /\ UNCHANGED <<varsStore, undelivered, expiry, dedup, purged, deliv, clock,
                   varsEvents, varsAmo>>

SyncCycle(failing) == \E st1 \in {SyncResult(failing)} : SyncDoes(st1)

WorkerSync(failing) ==
    /\ wpc = "sync"
    /\ wpc' = "expire"
    /\ backoff' = 0
    /\ SyncCycle(failing)
    /\ UNCHANGED ret

\* an operator picks another value in the status dropdown of a row
EditStatus(n, v) ==
    /\ n \in 2..Len(grid)
    /\ grid[n].id # ""
    /\ grid[n].status # v
    /\ grid' = [grid EXCEPT ![n].status = v]
    /\ UNCHANGED <<archive, varsRot, indexed, rowIndex, rowCount, upserted, varsCrm, varsSync,
                   varsHist, clock, varsEvents, varsAmo>>

\* time passes
Advance(d, limit) ==
    /\ clock + d <= limit
    /\ clock' = clock + d
    /\ UNCHANGED <<varsStore, varsCrm, varsSync, purged, ret, varsEvents, varsAmo>>

Tick == Advance(LongStep, MaxTime) /\ deliv' = EmptyMap

\* the process is restarted: the saved state is loaded, the dedup window and
\* the row index start empty, on_startup runs bootstrap_sheet_state and starts
\* the worker
Restart ==
    LET st0 == [known |-> disk.known, knownOrder |-> disk.knownOrder,
                expiry |-> disk.expiry, dirty |-> FALSE, disk |-> disk,
                flushes |-> 0, muts |-> 0]
    IN  \E st1 \in {bootstrap_sheet_state(st0, grid)} :
        /\ known' = st1.known
        /\ knownOrder' = st1.knownOrder
        /\ expiry' = st1.expiry
        /\ dirty' = st1.dirty
        /\ disk' = st1.disk
        /\ dedup' = EmptyMap
        /\ SetSheet(_invalidate_row_index(CurSheet))
        /\ wpc' = "expire"
        /\ backoff' = 0
        /\ deliv' = EmptyMap
        /\ UNCHANGED <<varsCrm, purged, ret, clock, othersEngine>>

Next ==
    \/ \E e \in LeadIds, s \in StatusIds : CrmChange(e, s)
    \/ \E leads \in Batches : Push(leads)
    \/ WorkerExpire
    \/ \E failing \in SUBSET LeadIds : WorkerSync(failing)
    \/ \E n \in 2..(Cardinality(LeadIds) + 1), v \in STATUS_DROPDOWN_OPTIONS : EditStatus(n, v)
    \/ Tick
    \/ Restart

Spec == Init /\ [][Next]_vars

----------------------------------------------------------------------------
\* Properties of the engine (Spec)

HasRow(e) == RowsOf(grid, e) # {}
CellOf(e) == IF HasRow(e) THEN grid[Min(RowsOf(grid, e))].status ELSE ""

\* the value process_webhook_leads writes for a status id
SheetValueOf(sid) ==
    LET display == status_id_to_display_name[sid]
    IN  IF sid \in trigger_status_ids THEN display
        ELSE Get(AMO_STATUS_TO_SHEET_OVERRIDE, display, display)

GuardApplies(e) == SheetValueOf(crm[e]) = "Courier" /\ Get(known, e, "") = "InProcess"

Unexpired(e) == ~(e \in DOMAIN expiry /\ clock >= expiry[e])

Untracked(e) == e \notin DOMAIN known /\ e \notin DOMAIN knownOrder /\ e \notin DOMAIN expiry

\* the webhook of e's current CRM status is delivered, for the first time or
\* again, and the CRM answers the GET of the lead
Replay(e) == Push(<<Genuine(e)>>)

\* the table writes that delivery makes
ReplayWrites(e) == WebhookResult(<<Genuine(e)>>).w

SyncStep == \E failing \in SUBSET LeadIds : WorkerSync(failing)
SyncPatching(e, sids) ==
    \E failing \in SUBSET LeadIds :
        /\ WorkerSync(failing)
        /\ \E sid \in sids : <<e, sid>> \in SyncResult(failing).patched

\* C3: when expire_finished_leads runs after a lead's lifetime has elapsed the
\* lead is left with no entry in the three state maps, and a webhook for a
\* lead purged that way writes nothing to the table and creates no entry.
C3_PurgedPushIgnored ==
    [][\A e \in LeadIds :
          /\ (WorkerExpire /\ ~Unexpired(e)) => Untracked(e)'
          /\ (e \in purged /\ Untracked(e) /\ HasRow(e)
                /\ SheetValueOf(crm[e]) \in DOMAIN _EXPIRY_SECONDS /\ Replay(e))
                => (ReplayWrites(e) = 0 /\ Untracked(e)')]_vars

\* C4: once purged, a lead is never put back into the state maps, and never
\* gets a CRM PATCH, by a webhook batch, a poll cycle or the sweep.
C4_PurgedAbsorbing ==
    [][\A e \in LeadIds :
          (e \in purged /\ Untracked(e) /\ (Replay(e) \/ WorkerExpire \/ SyncStep))
            => (Untracked(e)' /\ ~SyncPatching(e, StatusIds))]_vars

\* C5: when the status cell of a lead shows "InProcess" and a webhook arrives
\* whose resolved sheet value is "Courier", the cell, known_status and the
\* expiry of the lead stay as they are.
C5_PrecedenceGuard ==
    [][\A e \in LeadIds :
          (CellOf(e) = "InProcess" /\ SheetValueOf(crm[e]) = "Courier" /\ Replay(e))
            => (/\ CellOf(e)' = "InProcess"
                /\ Get(known', e, "") = Get(known, e, "")
                /\ Get(expiry', e, 0) = Get(expiry, e, 0))]_vars

\* an operator's edit of the status cell that the CRM has still to receive
PendingEdit(e, v) ==
    /\ HasRow(e) /\ CellOf(e) = v
    /\ v \in DOMAIN STATUS_MAP /\ ResolveStatusId(v) # 0
    /\ Get(known, e, "") # v

\* C9: an edit of a tracked row's status cell to a resolvable value of the
\* status map is answered by the next poll cycle whose CRM calls succeed with
\* a PATCH carrying its status, and until then no webhook and no restart
\* makes it disappear (unless the CRM has come to hold that status).
C9_EditReachesCrm ==
    [][\A e \in LeadIds, v \in STATUS_DROPDOWN_OPTIONS :
          (e \in DOMAIN known /\ PendingEdit(e, v))
            => /\ WorkerSync({}) => SyncPatching(e, {ResolveStatusId(v)})
               /\ ((\E x \in LeadIds : Replay(x)) \/ Restart)
                    => (PendingEdit(e, v)' \/ crm'[e] = ResolveStatusId(v))]_vars

\* what one lead of a batch does to the table and to the state maps
LeadWrites(lead) == WebhookResult(<<lead>>).w
StateKept == known' = known /\ knownOrder' = knownOrder /\ expiry' = expiry

\* C13: the status id that selects the branch and the value written to the
\* status cell and to known_status come from the GET of the lead, never from
\* the payload; when that GET raises, the lead is skipped: nothing is written
\* to the table and the state maps stay as they are.
C13_PayloadNeverAuthoritative ==
    [][\A lead \in Leads :
          (lead.id # "" /\ Push(<<lead>>))
            => /\ (lead.fetch = "ok" /\ LeadWrites(lead) > 0)
                    => (/\ CellOf(lead.id)' = SheetValueOf(crm[lead.id])
                        /\ known'[lead.id] = SheetValueOf(crm[lead.id]))
               /\ lead.fetch = "fail" => (LeadWrites(lead) = 0 /\ StateKept)]_vars

\* C13, the part about a GET that answers
C13_FetchedStatusWritten ==
    [][\A lead \in Leads :
          (lead.id # "" /\ lead.fetch = "ok" /\ Push(<<lead>>) /\ LeadWrites(lead) > 0)
            => (/\ CellOf(lead.id)' = SheetValueOf(crm[lead.id])
                /\ known'[lead.id] = SheetValueOf(crm[lead.id]))]_vars

\* C16: a webhook whose sheet value equals the lead's known_status writes
\* nothing to the table and leaves known_status and the armed expiry as they
\* are, also when it arrives after the dedup window of an earlier delivery has
\* lapsed; a poll cycle sends no PATCH for a row whose status cell equals
\* known_status.
C16_SameStatusNoOp ==
    [][\A e \in LeadIds :
          /\ (e \in DOMAIN known /\ known[e] = SheetValueOf(crm[e]) /\ Replay(e))
                => (ReplayWrites(e) = 0 /\ StateKept)
          /\ (e \in DOMAIN known /\ HasRow(e) /\ CellOf(e) = known[e]
                /\ Get(knownOrder, e, "") = grid[Min(RowsOf(grid, e))].order)
                => ~SyncPatching(e, StatusIds)]_vars

\* C16, the poll half alone
C16_PullSameStatusNoPatch ==
    [][\A e \in LeadIds :
          (e \in DOMAIN known /\ HasRow(e) /\ CellOf(e) = known[e]
                /\ Get(knownOrder, e, "") = grid[Min(RowsOf(grid, e))].order)
            => ~SyncPatching(e, StatusIds)]_vars

\* the delivery Replay(e) reaches the write of the terminal branch or of the
\* tracked branch: it is no duplicate, the lead has not expired, the fetched
\* status is no trigger status, it is terminal or the lead is tracked, and the
\* guard does not apply
ReachesStatusWrite(e) ==
    /\ ~_is_duplicate_webhook(dedup, e, crm[e], clock).dup
    /\ Unexpired(e)
    /\ crm[e] \notin trigger_status_ids
    /\ crm[e] \in DOMAIN terminal_status_id_to_name \/ Get(known, e, "") # ""
    /\ ~GuardApplies(e)

\* what the claim says of known_status and of the expiry after such a delivery
StatusAndExpirySet(e) ==
    LET v == SheetValueOf(crm[e])
    IN  /\ Get(known', e, "") = v
        /\ IF v \in DOMAIN _EXPIRY_SECONDS
           THEN e \in DOMAIN expiry' /\ expiry'[e] = clock + _EXPIRY_SECONDS[v]
           ELSE /\ (e \in DOMAIN expiry') = (e \in DOMAIN expiry)
                /\ Get(expiry', e, 0) = Get(expiry, e, 0)

\* C31: a webhook with a terminal status, or a non-trigger status of a tracked
\* lead, that the guard does not suppress writes the override-translated
\* sheet value into the status cell, makes known_status that value, and sets
\* the expiry to now + lifetime exactly when the value has a lifetime,
\* leaving the expiry as it was otherwise.
C31_TerminalUpdateArmsExpiry ==
    [][\A e \in LeadIds :
          (ReachesStatusWrite(e) /\ Replay(e))
            => (CellOf(e)' = SheetValueOf(crm[e]) /\ StatusAndExpirySet(e))]_vars

\* C31 for a lead that has a row in the active tab
C31_WrittenWhenRowExists ==
    [][\A e \in LeadIds :
          (ReachesStatusWrite(e) /\ HasRow(e) /\ Replay(e))
            => (CellOf(e)' = SheetValueOf(crm[e]) /\ StatusAndExpirySet(e))]_vars

\* C31 without the cell: known_status and the expiry, row or no row
C31_StateSetWithoutRow ==
    [][\A e \in LeadIds :
          (ReachesStatusWrite(e) /\ Replay(e)) => StatusAndExpirySet(e)]_vars

\* C35: a lead with an armed expiry has a known_status that carries a
\* lifetime: no lead that went on to a status without lifetime keeps a
\* countdown running.
C35_ExpiryMatchesStatus ==
    \A e \in DOMAIN expiry : Get(known, e, "") \in DOMAIN _EXPIRY_SECONDS

----------------------------------------------------------------------------
\* Specification SpecBranch: the CRM moves the lead, webhooks are delivered
\* with any payload, and time passes beyond the dedup window; no poll worker.

NextBranch ==
    \/ \E e \in LeadIds, s \in StatusIds : CrmChange(e, s)
    \/ \E leads \in Batches : Push(leads)
    \/ Tick

SpecBranch == Init /\ [][NextBranch]_vars

\* the delivery of lead gets as far as the GET of the lead: it is no
\* duplicate, the lead has not expired, and the payload's status is a trigger
\* or a terminal status or the lead is tracked
FetchedInPush(lead) ==
    /\ lead.id # ""
    /\ ~_is_duplicate_webhook(dedup, lead.id, lead.status_id, clock).dup
    /\ ~(lead.id \in DOMAIN expiry /\ clock >= expiry[lead.id])
    /\ \/ lead.status_id \in trigger_status_ids
       \/ lead.status_id \in DOMAIN terminal_status_id_to_name
       \/ Get(known, lead.id, "") # ""

\* the row build_row makes of the lead the CRM returns
FullRow(e) == MkRow(e, status_id_to_display_name[crm[e]], crmOrder[e])

----------------------------------------------------------------------------
\* Specification SpecPush: webhook deliveries alone, with arbitrary payloads,
\* in one run of the process; time advances in steps of one TTL.  deliv
\* records, for every (id, status id), the latest delivery less than TTL ago.

PushObserved(leads) ==
    \E st1 \in {WebhookResult(leads)} :
        /\ WebhookDoes(st1)
        /\ deliv' = st1.deliv
        /\ UNCHANGED <<undelivered, ret>>

MaxPushTime == 1     \* the clock of SpecPush stops here

TickObserved ==
    /\ Advance(1, MaxPushTime)
    /\ deliv' = [k \in {x \in DOMAIN deliv :
                            clock + 1 - deliv[x].ts < WEBHOOK_DEDUP_TTL_SEC} |-> deliv[k]]

NextPush ==
    \/ \E e \in LeadIds, s \in StatusIds : CrmChange(e, s)
    \/ \E leads \in Batches : PushObserved(leads)
    \/ TickObserved

SpecPush == Init /\ [][NextPush]_vars

----------------------------------------------------------------------------
\* Properties of webhook deliveries (SpecPush)

Replayed == {k \in DOMAIN deliv : deliv[k].replay}

ResolvedStatusId(lead) == IF lead.fetch = "ok" THEN crm[lead.id] ELSE lead.status_id

\* C17: a webhook gives a lead its known_status entry only when the resolved
\* status is a trigger status and the lead's row has been written; hence every
\* lead with a known_status has a row in the active sheet, and the batch's
\* 'written' tally is the number of writes made to the table.
C17_TrackingStartsWithTrigger ==
    [][\A lead \in Leads :
          (lead.id # "" /\ PushObserved(<<lead>>))
            => /\ (lead.id \notin DOMAIN known /\ lead.id \in DOMAIN known')
                    => ResolvedStatusId(lead) \in trigger_status_ids
               /\ \A e \in DOMAIN known' : HasRow(e)'
               /\ WebhookResult(<<lead>>).written = LeadWrites(lead)]_vars

----------------------------------------------------------------------------
\* Specification SpecNotify: the CRM notifies every status change, and the
\* notification of a change is delivered, any number of times, before the next
\* change; the CRM answers every GET.  undelivered[e] holds while the
\* notification of e's latest change has not been delivered yet.

CrmChangeNotified(e, s) ==
    /\ ~undelivered[e]
    /\ CrmMove(e, s)
    /\ undelivered' = [undelivered EXCEPT ![e] = TRUE]

TickShort == Advance(1, MaxClock) /\ UNCHANGED deliv

Notify(e) ==
    /\ Webhook(<<Genuine(e)>>)
    /\ undelivered' = [undelivered EXCEPT ![e] = FALSE]
    /\ UNCHANGED <<deliv, ret>>

NextNotify ==
    \/ \E e \in LeadIds, s \in StatusIds : CrmChangeNotified(e, s)
    \/ \E e \in LeadIds : Notify(e)
    \/ TickShort

SpecNotify == Init /\ [][NextNotify]_vars

----------------------------------------------------------------------------
\* Properties of the push direction when every change is notified (SpecNotify)

\* C8: for a tracked, unexpired lead with a row, once the notification of its
\* latest CRM status change has been delivered, the status cell and
\* known_status are the sheet value of the CRM's current status, unless the
\* precedence guard applies; also when the lead has returned to a status it
\* had less than the dedup TTL earlier.
C8_CrmReachesTable ==
    \A e \in LeadIds :
        (e \in DOMAIN known /\ HasRow(e) /\ ~undelivered[e] /\ Unexpired(e) /\ ~GuardApplies(e))
            => (known[e] = SheetValueOf(crm[e]) /\ CellOf(e) = known[e])

----------------------------------------------------------------------------
\* Specification SpecBatch: two leads; webhook batches of one or two leads
\* whose requests to the spreadsheet may raise.  The notifications carry the
\* CRM's current status and the GET of the re-fetch answers.  ret records how
\* the latest batch ended.

BatchStatusIds == {1, 3}

FlakyLeads ==
    {[id |-> i, status_id |-> crm[i], fetch |-> "ok", sheet |-> q] :
        i \in BatchLeadIds, q \in {"ok", "raise"}}
FlakyBatches ==
    {<<l>> : l \in FlakyLeads}
    \cup {<<p[1], p[2]>> : p \in {q \in FlakyLeads \X FlakyLeads : q[1].id # q[2].id}}

PushBatch(leads) ==
    \E st1 \in {WebhookResult(leads)} :
        /\ WebhookDoes(st1)
        /\ ret' = [op |-> "push", raised |-> st1.raised, flushes |-> st1.flushes,
                   seen |-> st1.seen]
        /\ UNCHANGED <<deliv, undelivered>>

NextBatch ==
    \/ \E e \in BatchLeadIds, s \in BatchStatusIds : CrmChange(e, s)
    \/ \E leads \in FlakyBatches : PushBatch(leads)

SpecBatch == Init /\ [][NextBatch]_vars

----------------------------------------------------------------------------
\* Properties of webhook batches whose spreadsheet requests may raise (SpecBatch)

\* the state file holds what the state maps hold, and the state is not dirty
Flushed ==
    /\ ~dirty
    /\ disk = [known |-> known, knownOrder |-> knownOrder, expiry |-> expiry]

\* C14: when the spreadsheet request made for one lead of a batch raises, the
\* handler still takes every later lead of the batch, flushes the state at
\* the end of the batch and returns its summary instead of raising.
C14_PushPerItemIsolation ==
    [][\A leads \in FlakyBatches :
          PushBatch(leads)
            => (~ret'.raised /\ ret'.seen = Len(leads) /\ Flushed')]_vars

----------------------------------------------------------------------------
\* Specification SpecPull: the poll cycle over a sheet of two rows.  Each
\* lead starts either tracked, as the webhook of its trigger status leaves
\* it, or purged, as a terminal webhook and the sweep leave it: a row showing
\* "Success" and no entry in the state maps.  Operators edit status cells and
\* fill order numbers; in a poll cycle the CRM calls of some leads raise.
\* ret records how the latest poll cycle ended, until the sheet is edited again.

\* the rows, the state maps and the CRM when the leads of T are tracked
TrackedRow(e) == MkRow(e, "InProcess", "")
PurgedRow(e) == MkRow(e, "Success", "")
SheetOf(order, T) ==
    <<COLUMNS>> \o [i \in 1..Len(order) |->
                        IF order[i] \in T THEN TrackedRow(order[i]) ELSE PurgedRow(order[i])]

InitPull ==
    /\ EventsIdle /\ TokenIdle /\ ClientIdle /\ clock = 0
    /\ \E order \in {<<"e1", "e2">>, <<"e2", "e1">>}, T \in SUBSET BatchLeadIds :
         /\ grid = SheetOf(order, T)
         /\ indexed = TRUE
         /\ rowIndex = [e \in BatchLeadIds |-> CHOOSE n \in 2..3 : order[n - 1] = e]
         /\ rowCount = 3
         /\ known = [e \in T |-> "InProcess"]
         /\ knownOrder = [e \in T |-> ""]
         /\ disk = [known |-> [e \in T |-> "InProcess"],
                    knownOrder |-> [e \in T |-> ""], expiry |-> EmptyMap]
         /\ crm = [e \in BatchLeadIds |-> IF e \in T THEN 1 ELSE 3]
         /\ purged = BatchLeadIds \ T
    /\ archive = {}
    /\ RotIdle
    /\ upserted = EmptyMap
    /\ crmOrder = [e \in BatchLeadIds |-> ""]
    /\ undelivered = [e \in BatchLeadIds |-> FALSE]
    /\ expiry = EmptyMap
    /\ dedup = EmptyMap
    /\ wpc = "sync"
    /\ backoff = 0
    /\ dirty = FALSE
    /\ deliv = EmptyMap
    /\ ret = NoRet

PullCycle(failing) ==
    \E st1 \in {SyncResult(failing)} :
        /\ SyncDoes(st1)
        /\ ret' = [op |-> "pull", raised |-> FALSE, flushes |-> st1.flushes,
                   seen |-> Cardinality(st1.examined), failing |-> failing,
                   patched |-> st1.patched, dispatched |-> st1.dispatched]
        /\ UNCHANGED <<wpc, backoff>>

\* an operator picks another value in the status dropdown of a row
OperatorEditsStatus(n, v) ==
    /\ n \in 2..Len(grid)
    /\ grid[n].id # ""
    /\ grid[n].status # v
    /\ grid' = [grid EXCEPT ![n].status = v]
    /\ ret' = NoRet
    /\ UNCHANGED <<archive, varsRot, indexed, rowIndex, rowCount, upserted, varsCrm, varsSync,
                   purged, deliv, clock, varsEvents, varsAmo>>

\* an operator fills the order number cell of a row
OperatorFillsOrder(n, o) ==
    /\ n \in 2..Len(grid)
    /\ grid[n].id # ""
    /\ grid[n].order = ""
    /\ o # ""
    /\ grid' = [grid EXCEPT ![n].order = o]
    /\ ret' = NoRet
    /\ UNCHANGED <<archive, varsRot, indexed, rowIndex, rowCount, upserted, varsCrm, varsSync,
                   purged, deliv, clock, varsEvents, varsAmo>>

NextPull ==
    \/ \E failing \in SUBSET BatchLeadIds : PullCycle(failing)
    \/ \E n \in 2..3, v \in STATUS_DROPDOWN_OPTIONS : OperatorEditsStatus(n, v)
    \/ \E n \in 2..3, o \in OrderNumbers : OperatorFillsOrder(n, o)

SpecPull == InitPull /\ [][NextPull]_vars

----------------------------------------------------------------------------
\* Properties of the poll cycle (SpecPull)

RowOf(e) == grid[Min(RowsOf(grid, e))]
PullState == [known |-> known, knownOrder |-> knownOrder]

\* the row's status cell differs from known_status and is a key of STATUS_MAP:
\* the cycle makes CRM calls for it
StatusCallDue(e) ==
    /\ RowOf(e).status \in DOMAIN STATUS_MAP
    /\ Get(known, e, "") # RowOf(e).status

\* C15: in one poll cycle, a CRM call that raises for one row or a status
\* with no status id on one row does not keep the loop from taking every row:
\* each row whose CRM calls answer and whose status cell holds a resolvable
\* value other than known_status gets its PATCH and its known_status, and the
\* cycle ends with the state flushed.
C15_PullPerRowIsolation ==
    [][\A failing \in SUBSET BatchLeadIds :
          PullCycle(failing)
            => /\ ret'.seen = Len(iter_lead_statuses(grid))
               /\ \A e \in BatchLeadIds \ failing :
                    (StatusCallDue(e) /\ ResolveStatusId(RowOf(e).status) # 0)
                        => /\ <<e, ResolveStatusId(RowOf(e).status)>> \in ret'.patched
                           /\ known'[e] = RowOf(e).status
               /\ Flushed']_vars

\* a cycle has ended in which the CRM calls of an earlier row raised, or its
\* status had no status id, and a later row got its PATCH
C15_Witness ==
    /\ ret.op = "pull"
    /\ Flushed
    /\ \E i \in 2..Len(grid), j \in 2..Len(grid) :
         /\ i < j
         /\ StatusCallDue(grid[i].id)
         /\ grid[i].id \in ret.failing \/ ResolveStatusId(grid[i].status) = 0
         /\ \E sid \in StatusIds : <<grid[j].id, sid>> \in ret.patched

\* C19: when a poll cycle finds the order number of a tracked row filled, the
\* known order number of the lead is the new value at the end of the cycle,
\* whether the PATCH was sent or the CRM calls raised.
C19_FillRecordedRegardless ==
    [][\A failing \in SUBSET BatchLeadIds, e \in BatchLeadIds :
          (OrderFilled(PullState, RowOf(e)) /\ PullCycle(failing))
            => Get(knownOrder', e, "") = RowOf(e).order]_vars

C26_OnlyConfirmedRecorded ==
    [][\A failing \in SUBSET BatchLeadIds, e \in BatchLeadIds :
          PullCycle(failing)
            => /\ Get(known', e, "") # Get(known, e, "")
                    => /\ known'[e] = RowOf(e).status
                       /\ e \notin failing
                       /\ <<e, ResolveStatusId(RowOf(e).status)>> \in ret'.patched
                       /\ crm'[e] = ResolveStatusId(RowOf(e).status)
               /\ (StatusCallDue(e) /\ (e \in failing \/ ResolveStatusId(RowOf(e).status) = 0))
                    => /\ Get(known', e, "") = Get(known, e, "")
                       /\ StatusCallDue(e)'
                       /\ crm'[e] # crm[e] => e \in ret'.dispatched]_vars

\* a cycle has ended in which the CRM calls of one lead raised, the value of
\* another has no status id, and both cells still differ from known_status
C26_Witness ==
    /\ ret.op = "pull"
    /\ \E e \in ret.failing, x \in BatchLeadIds \ ret.failing :
         /\ StatusCallDue(e) /\ ResolveStatusId(RowOf(e).status) # 0
         /\ StatusCallDue(x) /\ ResolveStatusId(RowOf(x).status) = 0
         /\ ret.patched = {}

----------------------------------------------------------------------------
\* Specification SpecFlush: one lead; webhook batches of one or two
\* notifications whose spreadsheet requests may raise, operators editing the
\* status cell and filling the order number, and poll cycles in which the CRM
\* calls raise or answer.  ret records how the latest handler call ended, with
\* its calls of remember_* and forget_lead (muts) and whether the state was
\* dirty when it began (stale).

FlushLeads ==
    {[id |-> i, status_id |-> s, fetch |-> "ok", sheet |-> q] :
        i \in LeadIds, s \in StatusIds, q \in {"ok", "raise"}}
FlushBatches ==
    {<<l>> : l \in FlushLeads}
    \cup {<<p[1], p[2]>> : p \in {q \in FlushLeads \X FlushLeads :
                                      q[1].status_id # q[2].status_id}}

PushFlush(leads) ==
    \E st1 \in {WebhookResult(leads)} :
        /\ WebhookDoes(st1)
        /\ ret' = [op |-> "push", raised |-> st1.raised, flushes |-> st1.flushes,
                   muts |-> st1.muts, stale |-> dirty]
        /\ UNCHANGED <<deliv, undelivered>>

PullFlush(failing) ==
    \E st1 \in {SyncResult(failing)} :
        /\ SyncDoes(st1)
        /\ ret' = [op |-> "pull", raised |-> FALSE, flushes |-> st1.flushes,
                   muts |-> st1.muts, stale |-> dirty]
        /\ UNCHANGED <<wpc, backoff>>

NextFlush ==
    \/ \E e \in LeadIds, s \in StatusIds : CrmChange(e, s)
    \/ \E leads \in FlushBatches : PushFlush(leads)
    \/ \E failing \in SUBSET LeadIds : PullFlush(failing)
    \/ \E n \in 2..(Cardinality(LeadIds) + 1), v \in STATUS_DROPDOWN_OPTIONS :
         OperatorEditsStatus(n, v)
    \/ \E n \in 2..(Cardinality(LeadIds) + 1), o \in OrderNumbers :
         OperatorFillsOrder(n, o)

SpecFlush == Init /\ [][NextFlush]_vars

----------------------------------------------------------------------------
\* Properties of the state file (SpecFlush)

\* the parts of C18 that hold as stated: a handler call writes the state file
\* at most once, at its end; calls of remember_* leave the file alone and
\* the state dirty; after the write the file holds the state maps and the
\* state is not dirty.
OneWriteAtEnd ==
    ret.op \in {"push", "pull"}
        => /\ ret.flushes <= 1
           /\ ret.raised => ret.flushes = 0
           /\ (ret.raised /\ ret.muts > 0) => dirty
           /\ ret.flushes = 1 => Flushed

----------------------------------------------------------------------------
\* AmoClient.get and AmoClient.patch: get_access_token, then _api_request,
\* which calls _throttle before each attempt.  A thread's steps are separated
\* where it waits (for the lock, in time.sleep) and where it starts a request.
\* The client's clock counts 0.04 s: the delay of 0.08 s is 2, the retry
\* waits of 10 s .. 60 s are 250 .. 1500, the token cache lifetime of 300 s
\* is 7500.

AMO_REQUEST_DELAY_SEC == 2
API_ATTEMPTS == 5
RETRY_WAIT_STEP == 250
RETRY_WAIT_CAP == 1500
TOKEN_CACHE_TICKS == 7500

Methods == {"GET", "PATCH"}
StatusCodes == {200, 204, 400, 429}

\* a retry wait that does not grow with the attempt
RetryWait_Flat(attempt) == RETRY_WAIT_STEP

\* wait = min(attempt * 10, 60)
RetryWait(attempt) == Min({attempt * RETRY_WAIT_STEP, RETRY_WAIT_CAP})

\* a request to the CRM starts now
Started(kind) ==
    /\ wire' = [any |-> TRUE, ts |-> clock, kind |-> kind]
    /\ shortGaps' = IF wire.any /\ clock - wire.ts < AMO_REQUEST_DELAY_SEC
                    THEN shortGaps \cup {<<wire.kind, kind>>}
                    ELSE shortGaps

othersClient == <<varsStore, varsEvents, varsEngine, tpc, tLocal, server, authCode, submitted>>

\* get / patch is called
ApiCall(t, m) ==
    /\ apc[t] = "idle"
    /\ apc' = [apc EXCEPT ![t] = "token"]
    /\ aLocal' = [aLocal EXCEPT ![t] = [NoCall EXCEPT !.method = m]]
    /\ UNCHANGED <<clock, reqLock, lastRequestTs, wire, shortGaps, tokStore, tokCache,
                   othersClient>>

CacheFresh == tokCache.token # 0 /\ clock - tokCache.ts < TOKEN_CACHE_TICKS

\* get_access_token returns the cached token
TokenCached(t) ==
    /\ apc[t] = "token"
    /\ CacheFresh
    /\ apc' = [apc EXCEPT ![t] = "throttle"]
    /\ aLocal' = [aLocal EXCEPT ![t].attempt = 1]
    /\ UNCHANGED <<clock, reqLock, lastRequestTs, wire, shortGaps, tokStore, tokCache,
                   othersClient>>

\* get_access_token calls _is_token_valid: GET /api/v4/account by requests.get
TokenProbe(t, valid) ==
    /\ apc[t] = "token"
    /\ ~CacheFresh
    /\ tokStore.access # 0
    /\ Started("probe")
    /\ IF valid
       THEN /\ tokCache' = [token |-> tokStore.access, ts |-> clock]
            /\ apc' = [apc EXCEPT ![t] = "throttle"]
            /\ aLocal' = [aLocal EXCEPT ![t].attempt = 1]
       ELSE /\ apc' = [apc EXCEPT ![t] = "refresh"]
            /\ UNCHANGED <<tokCache, aLocal>>
    /\ UNCHANGED <<clock, reqLock, lastRequestTs, tokStore, othersClient>>

\* get_access_token calls _refresh: POST /oauth2/access_token by requests.post
TokenRefresh(t) ==
    /\ apc[t] = "refresh"
    /\ tokStore.refresh # 0
    /\ Started("refresh")
    /\ tokStore' = [access |-> tokStore.access + 1, refresh |-> tokStore.refresh + 1]
    /\ tokCache' = [token |-> tokStore.access + 1, ts |-> clock]
    /\ apc' = [apc EXCEPT ![t] = "throttle"]
    /\ aLocal' = [aLocal EXCEPT ![t].attempt = 1]
    /\ UNCHANGED <<clock, reqLock, lastRequestTs, othersClient>>

\* _throttle: take the lock; sleep inside it when the last request is recent
ThrottleEnter(t) ==
    LET delay == AMO_REQUEST_DELAY_SEC
        elapsed == clock - lastRequestTs
    IN  /\ apc[t] = "throttle"
        /\ IF delay <= 0
           THEN /\ apc' = [apc EXCEPT ![t] = "send"]
                /\ UNCHANGED <<aLocal, reqLock, lastRequestTs>>
           ELSE /\ reqLock = "free"
                /\ IF elapsed < delay
                   THEN /\ reqLock' = t
                        /\ apc' = [apc EXCEPT ![t] = "sleep"]
                        /\ aLocal' = [aLocal EXCEPT ![t].wake = clock + (delay - elapsed)]
                        /\ UNCHANGED lastRequestTs
                   ELSE /\ lastRequestTs' = clock
                        /\ apc' = [apc EXCEPT ![t] = "send"]
                        /\ UNCHANGED <<aLocal, reqLock>>
        /\ UNCHANGED <<clock, wire, shortGaps, tokStore, tokCache, othersClient>>

\* _throttle: the sleep is over; stamp the time and release the lock
ThrottleWake(t) ==
    /\ apc[t] = "sleep"
    /\ clock >= aLocal[t].wake
    /\ lastRequestTs' = clock
    /\ reqLock' = "free"
    /\ apc' = [apc EXCEPT ![t] = "send"]
    /\ UNCHANGED <<clock, aLocal, wire, shortGaps, tokStore, tokCache, othersClient>>

\* _api_request: requests.request starts and the CRM answers with status
Send(t, status) ==
    /\ apc[t] = "send"
    /\ Started("api")
    /\ IF status = 429
       THEN /\ apc' = [apc EXCEPT ![t] = "backoff"]
            /\ aLocal' = [aLocal EXCEPT
                              ![t].sent = @ + 1,
                              ![t].status = status,
                              ![t].waits = Append(@, RetryWait(aLocal[t].attempt)),
                              ![t].wake = clock + RetryWait(aLocal[t].attempt)]
       ELSE /\ apc' = [apc EXCEPT ![t] = "done"]
            /\ aLocal' = [aLocal EXCEPT ![t].sent = @ + 1, ![t].status = status]
    /\ UNCHANGED <<clock, reqLock, lastRequestTs, tokStore, tokCache, othersClient>>

\* _api_request: the sleep after a 429 is over; next attempt, or return the
\* last response when the attempts are used up
BackoffWake(t) ==
    /\ apc[t] = "backoff"
    /\ clock >= aLocal[t].wake
    /\ IF aLocal[t].attempt < API_ATTEMPTS
       THEN /\ apc' = [apc EXCEPT ![t] = "throttle"]
            /\ aLocal' = [aLocal EXCEPT ![t].attempt = @ + 1]
       ELSE /\ apc' = [apc EXCEPT ![t] = "done"]
            /\ UNCHANGED aLocal
    /\ UNCHANGED <<clock, reqLock, lastRequestTs, wire, shortGaps, tokStore, tokCache,
                   othersClient>>

\* get / patch returns (or raises on a status of 400 and above)
ApiReturn(t) ==
    /\ apc[t] = "done"
    /\ apc' = [apc EXCEPT ![t] = "idle"]
    /\ aLocal' = [aLocal EXCEPT ![t] = NoCall]
    /\ UNCHANGED <<clock, reqLock, lastRequestTs, wire, shortGaps, tokStore, tokCache,
                   othersClient>>

\* time passes
ClientAdvance(to) ==
    /\ to > clock
    /\ clock' = to
    /\ UNCHANGED <<varsClient, varsToken, varsStore, varsEvents, varsEngine>>

\* the client when the process has been up for a while: tokens in the store,
\* no request made yet
InitClient ==
    /\ StoreIdle /\ EventsIdle /\ EngineIdle /\ ClientIdle
    /\ clock = AMO_REQUEST_DELAY_SEC
    /\ tpc = [t \in Threads |-> "idle"]
    /\ tLocal = [t \in Threads |-> NoLocal]
    /\ tokStore = [access |-> 1, refresh |-> 1]
    /\ tokCache = [token |-> 0, ts |-> 0]
    /\ server = [access |-> 1, refresh |-> 1, gen |-> 1, accessValid |-> TRUE, codeUsed |-> FALSE]
    /\ authCode = FALSE
    /\ submitted = EmptyMap

----------------------------------------------------------------------------
\* Specification SpecThrottle: two threads call get and patch; the CRM never
\* answers 429; time advances in steps of half the delay.

MaxThrottleTime == 6

NextThrottle ==
    \/ \E t \in Threads, m \in Methods : ApiCall(t, m)
    \/ \E t \in Threads : TokenCached(t)
    \/ \E t \in Threads, valid \in BOOLEAN : TokenProbe(t, valid)
    \/ \E t \in Threads : TokenRefresh(t)
    \/ \E t \in Threads : ThrottleEnter(t)
    \/ \E t \in Threads : ThrottleWake(t)
    \/ \E t \in Threads : Send(t, 200)
    \/ \E t \in Threads : ApiReturn(t)
    \/ (clock < MaxThrottleTime /\ ClientAdvance(clock + 1))

SpecThrottle == InitClient /\ [][NextThrottle]_vars

\* C11: with a positive AMO_REQUEST_DELAY_SEC, any two consecutive requests
\* to the CRM (GET, PATCH, the token validity probe, the refresh) are started
\* at least the delay apart, whatever the interleaving of the callers.
C11_GlobalThrottle == shortGaps = {}

\* C11 for the requests of _api_request alone
C11_ApiRequestsSpaced == <<"api", "api">> \notin shortGaps

----------------------------------------------------------------------------
\* Specification SpecRetry: one thread calls get and patch, one call after
\* the other; the CRM answers each attempt with any status; a sleeping thread
\* sleeps until its wake-up time.  Calls start while the clock is at most
\* MaxRetryStart.

MaxRetryStart == 4

Caller == "t1"

\* time.sleep: time passes until the wake-up time
SleepThrough(t) ==
    /\ apc[t] \in {"sleep", "backoff"}
    /\ ClientAdvance(aLocal[t].wake)

NextRetry ==
    \/ \E m \in Methods : clock <= MaxRetryStart /\ ApiCall(Caller, m)
    \/ TokenCached(Caller)
    \/ \E valid \in BOOLEAN : TokenProbe(Caller, valid)
    \/ TokenRefresh(Caller)
    \/ ThrottleEnter(Caller)
    \/ ThrottleWake(Caller)
    \/ \E status \in StatusCodes : Send(Caller, status)
    \/ BackoffWake(Caller)
    \/ ApiReturn(Caller)
    \/ SleepThrough(Caller)

SpecRetry == InitClient /\ [][NextRetry]_vars /\ WF_vars(NextRetry)

\* what one call of _api_request has done so far
RetryBounded ==
    LET a == aLocal[Caller]
    IN  /\ a.sent <= 5
        /\ Len(a.waits) <= a.sent
        /\ \A k \in 1..Len(a.waits) :
             a.waits[k] = IF k * 250 < 1500 THEN k * 250 ELSE 1500
        /\ apc[Caller] = "backoff"
             => (a.status = 429 /\ Len(a.waits) = a.sent
                 /\ a.wake = wire.ts + a.waits[a.sent])
        /\ apc[Caller] = "done"
             => \/ a.status # 429 /\ Len(a.waits) = a.sent - 1
                \/ a.status = 429 /\ a.sent = 5 /\ Len(a.waits) = 5

InApiRequest == apc[Caller] \in {"throttle", "sleep", "send", "backoff"}

\* C12: one call of _api_request sends at most 5 requests; after attempt k
\* is answered 429 it waits min(k * 10, 60) seconds (250 per 10 s here)
\* before the next attempt; a response other than 429 is returned at once;
\* when all 5 attempts are answered 429 the call ends and returns the last
\* response.
C12_BoundedRetry ==
    /\ []RetryBounded
    /\ InApiRequest ~> apc[Caller] = "done"

\* a call has returned the 429 of its fifth attempt
C12_Witness ==
    /\ apc[Caller] = "done"
    /\ aLocal[Caller].status = 429
    /\ aLocal[Caller].sent = 5
    /\ aLocal[Caller].waits = <<250, 500, 750, 1000, 1250>>

----------------------------------------------------------------------------
\* Specification SpecDedup: _is_duplicate_webhook called for any key at any
\* time, time counted in halves of the TTL.  ret keeps the latest call: its
\* key, its time, the window before it and its answer.

DEDUP_TTL_HALVES == 2
MaxDedupTime == 6

DedupKeys == {<<"e1", 1>>, <<"e1", 3>>, <<"e2", 1>>}

DedupCheck(lead_id, status_id) ==
    /\ \E r \in {IsDuplicate(DEDUP_TTL_HALVES, dedup, lead_id, status_id, clock)} :
         /\ dedup' = r.dedup
         /\ ret' = [op |-> "dedup", key |-> <<lead_id, status_id>>, now |-> clock,
                    before |-> dedup, dup |-> r.dup]
    /\ UNCHANGED <<varsStore, varsEvents, varsAmo, varsCrm, known, knownOrder,
                   expiry, wpc, backoff, dirty, disk, purged, deliv, clock>>

DedupTick ==
    /\ clock < MaxDedupTime
    /\ clock' = clock + 1
    /\ UNCHANGED <<varsStore, varsEvents, varsAmo, varsEngine>>

NextDedup ==
    \/ \E k \in DedupKeys : DedupCheck(k[1], k[2])
    \/ DedupTick

SpecDedup == Init /\ [][NextDedup]_vars

\* the recorded time of key k in window dd is less than the TTL before now
Recent(dd, k, now) == k \in DOMAIN dd /\ now - dd[k] < DEDUP_TTL_HALVES

\* C21: _is_duplicate_webhook(id, status) answers true exactly when the
\* window holds an entry of (id, status) recorded less than the TTL before
\* now, and then leaves that entry's time as it was; otherwise it records now
\* for (id, status) and answers false; the answer is the same with any other
\* key's entry removed from the window.
C21_DedupSemantics ==
    ret.op = "dedup" =>
        /\ ret.dup = Recent(ret.before, ret.key, ret.now)
        /\ ret.key \in DOMAIN dedup
        /\ dedup[ret.key] = IF ret.dup THEN ret.before[ret.key] ELSE ret.now
        /\ \A k \in DOMAIN ret.before \ {ret.key} :
             IsDuplicate(DEDUP_TTL_HALVES, Drop(ret.before, k), ret.key[1],
                         ret.key[2], ret.now).dup = ret.dup

\* a call answered true for an entry recorded earlier, while the window held
\* another key's entry; a call answered false for an entry exactly one TTL old
C21_Witness ==
    /\ ret.op = "dedup"
    /\ ret.dup
    /\ ret.before[ret.key] < ret.now
    /\ DOMAIN ret.before \ {ret.key} # {}

C21_WitnessExpired ==
    /\ ret.op = "dedup"
    /\ ~ret.dup
    /\ ret.key \in DOMAIN ret.before
    /\ ret.now - ret.before[ret.key] = DEDUP_TTL_HALVES

\* C22: right after a call of _is_duplicate_webhook at time t the window
\* holds no entry recorded more than twice the TTL before t, except possibly
\* the entry the call has just recorded.
C22_EvictionBound ==
    ret.op = "dedup" /\ clock = ret.now =>
        \A k \in DOMAIN dedup :
            \/ ret.now - dedup[k] <= 2 * DEDUP_TTL_HALVES
            \/ (k = ret.key /\ ~ret.dup)

\* a call has evicted another key's entry and kept one exactly two TTLs old
C22_Witness ==
    /\ ret.op = "dedup" /\ clock = ret.now
    /\ \E k \in DOMAIN ret.before \ {ret.key} : k \notin DOMAIN dedup
    /\ \E k \in DOMAIN dedup \ {ret.key} :
         ret.now - dedup[k] = 2 * DEDUP_TTL_HALVES

----------------------------------------------------------------------------
\* Specification SpecAccess: get_access_token called by one caller at a time,
\* from start to return.  A call takes the client's cache, the token store,
\* the CRM's token state and the configured code; it gives back what it left
\* of them, the requests it sent, and its outcome.  ret keeps the latest call
\* and what it started from.

\* line 315 with the test of the refresh credential left out
UseCode_Always(refresh_token, code) == code

\* line 315: bootstrap from AMO_AUTH_CODE
UseCode(refresh_token, code) == refresh_token = 0 /\ code

TokenCall(s) ==
    [cache |-> s.cache, store |-> s.store, server |-> s.server,
     calls |-> <<>>, result |-> "none", token |-> 0]

\* raise RuntimeError
TokenError(r) == [r EXCEPT !.result = "error"]

\* _refresh from its request on (289-299), and lines 326-328
RefreshSent(r, refresh_token, now) ==
    LET sent == [r EXCEPT !.calls = Append(@, "refresh")]
    IN  IF RefreshAccepted(r.server, refresh_token) /\ r.server.gen < MaxGen
        THEN LET new == r.server.gen + 1
             IN  [sent EXCEPT !.server = Issue(r.server),
                              !.store = [access |-> new, refresh |-> new],
                              !.cache = [token |-> new, ts |-> now],
                              !.result = "token", !.token = new]
        ELSE TokenError(sent)

\* _refresh that returns an empty token when there is no refresh credential
RefreshToken_Blank(r, refresh_token, now) ==
    IF refresh_token = 0
    THEN [r EXCEPT !.result = "token", !.token = 0, !.cache = [token |-> 0, ts |-> now]]
    ELSE RefreshSent(r, refresh_token, now)

\* _refresh and lines 325-328
RefreshToken(r, refresh_token, now) ==
    IF refresh_token = 0
    THEN TokenError(r)
    ELSE RefreshSent(r, refresh_token, now)

\* exchange_code and lines 316-324
ExchangeCode(r, now) ==
    LET sent == [r EXCEPT !.calls = Append(@, "exchange")]
    IN  IF ~r.server.codeUsed /\ r.server.gen < MaxGen
        THEN LET new == r.server.gen + 1
             IN  [sent EXCEPT !.server = [Issue(r.server) EXCEPT !.codeUsed = TRUE],
                              !.store = [access |-> new, refresh |-> new],
                              !.cache = [token |-> new, ts |-> now],
                              !.result = "token", !.token = new]
        ELSE TokenError(sent)

\* get_access_token
get_access_token(s) ==
    LET r0 == TokenCall(s)
        access_token == s.store.access
        refresh_token == s.store.refresh
        probed == IF access_token = 0 THEN r0
                  ELSE [r0 EXCEPT !.calls = Append(@, "probe")]
    IN  IF s.cache.token # 0 /\ s.now - s.cache.ts < TOKEN_CACHE_SEC
        THEN [r0 EXCEPT !.result = "token", !.token = s.cache.token]
        ELSE IF _is_token_valid(s.server, access_token)
        THEN [probed EXCEPT !.cache = [token |-> access_token, ts |-> s.now],
                            !.result = "token", !.token = access_token]
        ELSE IF UseCode(refresh_token, s.code)
        THEN ExchangeCode(probed, s.now)
        ELSE RefreshToken(probed, refresh_token, s.now)

InitAccess ==
    /\ StoreIdle /\ EventsIdle /\ EngineIdle /\ ClientIdle
    /\ clock = 0
    /\ tpc = [t \in Threads |-> "idle"]
    /\ tLocal = [t \in Threads |-> NoLocal]
    /\ tokStore \in {[access |-> a, refresh |-> r] : a \in {0, 1}, r \in {0, 1}}
    /\ tokCache = [token |-> 0, ts |-> 0]
    /\ server = [access |-> 1, refresh |-> 1, gen |-> 1, accessValid |-> TRUE, codeUsed |-> FALSE]
    /\ authCode \in BOOLEAN
    /\ submitted = EmptyMap

TokenState == [cache |-> tokCache, store |-> tokStore, server |-> server,
               code |-> authCode, now |-> clock]

GetToken ==
    /\ \E r \in {get_access_token(TokenState)} :
         /\ tokCache' = r.cache
         /\ tokStore' = r.store
         /\ server' = r.server
         /\ ret' = [op |-> "token", before |-> TokenState, calls |-> r.calls,
                    result |-> r.result, token |-> r.token,
                    after |-> [cache |-> r.cache, store |-> r.store,
                               server |-> r.server]]
    /\ UNCHANGED <<varsStore, varsEvents, varsClient, varsCrm, varsSync, purged, deliv,
                   clock, tpc, tLocal, authCode, submitted>>

\* the tokens file loses its refresh credential (the file is replaced, or the
\* process falls back to AMO_ACCESS_TOKEN without AMO_REFRESH_TOKEN)
StoreLosesRefresh ==
    /\ tokStore.refresh # 0
    /\ tokStore' = [tokStore EXCEPT !.refresh = 0]
    /\ UNCHANGED <<varsStore, varsEvents, varsClient, varsEngine, clock, tpc, tLocal,
                   tokCache, server, authCode, submitted>>

NextAccess ==
    \/ GetToken
    \/ TokExpire
    \/ TokTick
    \/ StoreLosesRefresh

SpecAccess == InitAccess /\ [][NextAccess]_vars

CacheWasFresh ==
    /\ ret.before.cache.token # 0
    /\ ret.before.now - ret.before.cache.ts < TOKEN_CACHE_SEC
StoredWasValid == _is_token_valid(ret.before.server, ret.before.store.access)
Returned(tok) == ret.result = "token" /\ ret.token = tok
CallLeftAsWas ==
    /\ ret.after.cache = ret.before.cache
    /\ ret.after.store = ret.before.store
    /\ ret.after.server = ret.before.server
AfterCall == ret.op = "token"

\* C23: get_access_token returns the cached token and sends nothing when the
\* token was validated less than 300 s ago; otherwise it probes the stored
\* token and returns it when valid; when it is not valid it sends the refresh
\* with the stored refresh credential; it sends the code exchange only when
\* no refresh credential is stored and a code is configured; after a
\* successful probe, refresh or exchange the cache holds the returned token.
C23_AcquisitionOrder ==
    AfterCall =>
        /\ CacheWasFresh =>
             ret.calls = <<>> /\ Returned(ret.before.cache.token) /\ CallLeftAsWas
        /\ ~CacheWasFresh /\ StoredWasValid =>
             ret.calls = <<"probe">> /\ Returned(ret.before.store.access)
        /\ ~CacheWasFresh /\ ~StoredWasValid /\ ret.before.store.refresh # 0 =>
             ret.calls \in {<<"refresh">>, <<"probe", "refresh">>}
        /\ (\E i \in 1..Len(ret.calls) : ret.calls[i] = "exchange") =>
             /\ ~CacheWasFresh /\ ~StoredWasValid
             /\ ret.before.store.refresh = 0 /\ ret.before.code
        /\ ret.result = "token" /\ ~CacheWasFresh =>
             ret.token # 0 /\ ret.after.cache.token = ret.token

\* a call that probed a retired token and refreshed it
C23_Witness ==
    /\ AfterCall
    /\ ret.calls = <<"probe", "refresh">>
    /\ ret.result = "token"
    /\ ret.after.cache.token = ret.token

\* a call that bootstrapped from the code
C23_WitnessExchange ==
    /\ AfterCall
    /\ ret.calls = <<"exchange">>
    /\ ret.result = "token"

NoCredential ==
    /\ ~StoredWasValid
    /\ ret.before.store.refresh = 0
    /\ ~ret.before.code

\* C24 as stated: with the stored access token invalid or absent, no refresh
\* credential stored and no code configured, get_access_token fails with an
\* error and leaves the cache and the token store as they were.
C24_NoCredentialIsError ==
    AfterCall /\ NoCredential =>
        ret.result = "error" /\ CallLeftAsWas

\* C24: the same for a call that does not find a token validated less than
\* 300 s ago in the cache; a call that does returns the cached token.
C24_NoCredentialIsErrorPastCache ==
    AfterCall /\ NoCredential =>
        IF CacheWasFresh
        THEN Returned(ret.before.cache.token) /\ CallLeftAsWas
        ELSE ret.result = "error" /\ CallLeftAsWas

\* a call failed for want of a credential, the cache holding a token
\* validated too long ago
C24_Witness ==
    /\ AfterCall /\ NoCredential /\ ~CacheWasFresh
    /\ ret.before.cache.token # 0
    /\ ret.result = "error"

----------------------------------------------------------------------------
\* Specification SpecResolve: the status trigger of sync_sheet_to_amo for one
\* changed cell, from the answer of the GET of the lead to the body of the
\* PATCH, over the maps _load_pipelines and DROPDOWN_STATUS_MAP_JSON can give.
\* Pipeline 7 is the configured one, with any maps; pipeline 8 has a display
\* map only; a lead may carry no pipeline id (0).  ret holds the inputs, and
\* after the call the body.

PIPELINE_ID == 7
OtherPipeline == PIPELINE_ID + 1

ResolveNames == {"Courier", "Success"}

\* the maps from some of the names to an id or to 0
LookupMaps(id) == UNION {[S -> {0, id}] : S \in SUBSET ResolveNames}

Confs ==
    {[display |-> (PIPELINE_ID :> d @@ OtherPipeline :> ("Success" :> 12)),
      names |-> (PIPELINE_ID :> n),
      static |-> s] :
        d \in LookupMaps(11), n \in LookupMaps(21), s \in LookupMaps(31)}

NoPatch == [sent |-> FALSE, status_id |-> 0, pipeline_id |-> 0]

\* lines 1337-1358: the body of the PATCH, or none
PatchBody(conf, lead_pipeline_id, status_name) ==
    LET status_id == ResolveIn(Get(conf.display, lead_pipeline_id, EmptyMap),
                               Get(conf.names, lead_pipeline_id, EmptyMap),
                               conf.static, status_name)
    IN  IF status_id = 0 THEN NoPatch
        ELSE [sent |-> TRUE, status_id |-> status_id,
              pipeline_id |-> IF lead_pipeline_id # 0 THEN lead_pipeline_id
                              ELSE PIPELINE_ID]

\* a changed cell: its value is a key of STATUS_MAP (line 1328)
ResolveInputs ==
    {[op |-> "changed", conf |-> c, lead_pipeline_id |-> p, status_name |-> v,
      patch |-> NoPatch] :
        c \in Confs, p \in {0, PIPELINE_ID, OtherPipeline},
        v \in ResolveNames}

InitResolve ==
    /\ StoreIdle /\ EventsIdle /\ TokenIdle /\ ClientIdle /\ clock = 0
    /\ crm = [e \in BatchLeadIds |-> 4]
    /\ crmOrder = [e \in BatchLeadIds |-> ""]
    /\ undelivered = [e \in BatchLeadIds |-> FALSE]
    /\ known = EmptyMap /\ knownOrder = EmptyMap /\ expiry = EmptyMap
    /\ dedup = EmptyMap /\ wpc = "sync" /\ backoff = 0 /\ dirty = FALSE /\ disk = NoState
    /\ purged = {} /\ deliv = EmptyMap
    /\ ret \in {r \in ResolveInputs : r.status_name \in DOMAIN r.conf.static}

ResolveCall ==
    /\ ret.op = "changed"
    /\ ret' = [ret EXCEPT !.op = "resolved",
                          !.patch = PatchBody(ret.conf, ret.lead_pipeline_id,
                                              ret.status_name)]
    /\ UNCHANGED <<varsStore, varsEvents, varsAmo, varsCrm, varsSync, purged, deliv, clock>>

NextResolve == ResolveCall

SpecResolve == InitResolve /\ [][NextResolve]_vars

\* what the three maps give for the translated value, in the order asked
Tiers ==
    LET look == SHEET_STATUS_TO_AMO_DISPLAY[ret.status_name]
        p == ret.lead_pipeline_id
    IN  << IF p \in DOMAIN ret.conf.display /\ look \in DOMAIN ret.conf.display[p]
           THEN ret.conf.display[p][look] ELSE 0,
           IF p \in DOMAIN ret.conf.names /\ look \in DOMAIN ret.conf.names[p]
           THEN ret.conf.names[p][look] ELSE 0,
           IF look \in DOMAIN ret.conf.static THEN ret.conf.static[look] ELSE 0 >>

\* C25: the status id of the PATCH for a changed cell is the first non-empty
\* of what the pipeline's display-name map, the pipeline's raw-name map and
\* the static status map give for the sheet value translated through
\* SHEET_STATUS_TO_AMO_DISPLAY, no PATCH is sent when all three are empty,
\* and the PATCH carries the lead's pipeline id, or PIPELINE_ID when the lead
\* has none.
C25_ThreeTierResolution ==
    ret.op = "resolved" =>
        /\ ret.patch.sent <=> \E i \in 1..3 : Tiers[i] # 0
        /\ ret.patch.sent =>
             /\ \E i \in 1..3 : /\ Tiers[i] # 0
                                /\ ret.patch.status_id = Tiers[i]
                                /\ \A j \in 1..(i - 1) : Tiers[j] = 0
             /\ ret.patch.pipeline_id =
                  IF ret.lead_pipeline_id = 0 THEN PIPELINE_ID ELSE ret.lead_pipeline_id

\* the cell shows "Courier", every map has an id for "Success" and the static
\* map one for "Courier" too: the PATCH carries the display map's id for
\* "Success" and the lead's pipeline id
C25_Witness ==
    /\ ret.op = "resolved"
    /\ ret.status_name = "Courier"
    /\ ret.lead_pipeline_id = PIPELINE_ID
    /\ Tiers = <<11, 21, 31>>
    /\ Get(ret.conf.static, "Courier", 0) # 0
    /\ ret.patch = [sent |-> TRUE, status_id |-> 11, pipeline_id |-> PIPELINE_ID]

\* only the static map has an id, and the lead has no pipeline id
C25_WitnessStatic ==
    /\ ret.op = "resolved"
    /\ Tiers = <<0, 0, 31>>
    /\ ret.lead_pipeline_id = 0
    /\ ret.patch = [sent |-> TRUE, status_id |-> 31, pipeline_id |-> PIPELINE_ID]

----------------------------------------------------------------------------
\* Specification SpecWriteFail: sequential upsert_row / update_status calls
\* in which a request to the spreadsheet may raise (APIError, e.g. quota
\* exceeded): the requests of _get_or_create_sheet when no handle is cached
\* ("open"), get_all_values when no index is cached ("read"), or the write of
\* the row or the cell ("write").  ret keeps the latest call, where it
\* raised, and the caches before it.

FailPoints == {"none", "open", "read", "write"}

\* the call sends the request that raises at that point
SendsRequest(sh, cached, op, row, at) ==
    CASE at = "none"  -> TRUE
      [] at = "open"  -> ~cached
      [] at = "read"  -> ~sh.indexed
      [] at = "write" -> op = "upsert_row" \/ find_row(sh, row.id) # 0

\* the index that keeps what _build_row_index read when the write raises, but
\* is dropped when it was cached before
SheetCall_DropsIndex(sh, op, row, at) ==
    CASE at = "open"  -> sh
      [] at = "read"  -> sh
      [] at = "write" -> IF sh.indexed THEN _invalidate_row_index(sh)
                         ELSE _get_row_index(sh)
      [] OTHER        -> IF op = "upsert_row" THEN upsert_row(sh, row)
                         ELSE update_status(sh, row.id, row.status)

\* upsert_row / update_status up to the request that raises, or to the end
SheetCall(sh, op, row, at) ==
    CASE at = "open"  -> sh
      [] at = "read"  -> sh
      [] at = "write" -> _get_row_index(sh)
      [] OTHER        -> IF op = "upsert_row" THEN upsert_row(sh, row)
                         ELSE update_status(sh, row.id, row.status)

Caches == [indexed |-> indexed, rowIndex |-> rowIndex, rowCount |-> rowCount,
           sheets |-> sheets]

WriteAttempt(op, row, at) ==
    /\ SendsRequest(CurSheet, sheets, op, row, at)
    /\ SetSheet(SheetCall(CurSheet, op, row, at))
    /\ sheets' = (sheets \/ at # "open")
    /\ upserted' =
         IF at # "none" THEN upserted
         ELSE IF op = "upsert_row" THEN Put(upserted, row.id, row)
         ELSE IF row.id \in DOMAIN upserted /\ find_row(CurSheet, row.id) # 0
              THEN [upserted EXCEPT ![row.id].status = row.status]
              ELSE upserted
    /\ ret' = [op |-> op, raised |-> at # "none", at |-> at, before |-> Caches,
               grid |-> grid]
    /\ UNCHANGED <<archive, sheetLock, tabs, rpc, hpc, hLocal, varsEvents, clock,
                   varsAmo, varsCrm, varsSync, purged, deliv>>

\* rotate_to_archive, alone: the caches of the active name are dropped and
\* _get_or_create_sheet caches the handle of the fresh tab
WriteFailRotate ==
    \E name \in ArchiveNames :
        /\ name \notin archive
        /\ archive' = archive \cup {name}
        /\ SetSheet(rotate_to_archive(CurSheet))
        /\ sheets' = TRUE
        /\ upserted' = EmptyMap
        /\ ret' = NoRet
        /\ UNCHANGED <<sheetLock, tabs, rpc, hpc, hLocal, varsEvents, clock,
                       varsAmo, varsCrm, varsSync, purged, deliv>>

WriteRows == {MkRow(i, s, "") : i \in Entities, s \in {"InProcess", "Success"}}

NextWriteFail ==
    \/ \E row \in WriteRows, at \in FailPoints : WriteAttempt("upsert_row", row, at)
    \/ \E row \in WriteRows, at \in FailPoints : WriteAttempt("update_status", row, at)
    \/ WriteFailRotate

SpecWriteFail == InitStore /\ [][NextWriteFail]_vars

IndexAsBefore ==
    /\ indexed = ret.before.indexed
    /\ rowIndex = ret.before.rowIndex
    /\ rowCount = ret.before.rowCount

\* C27 as stated: when a request to the spreadsheet raises during upsert_row
\* or update_status, the cached id -> row map and the cached row count are
\* what they were before the call and no cached worksheet handle is dropped.
C27_FailedWriteKeepsIndex ==
    (ret.op \in {"upsert_row", "update_status"} /\ ret.raised) =>
        /\ IndexAsBefore
        /\ ret.before.sheets => sheets

\* C27: when a request to the spreadsheet raises during upsert_row or
\* update_status, the worksheet is as it was, no cached worksheet handle is
\* dropped, and the cached id -> row map and row count are what they were
\* before the call or, when none were cached and the write is what raised,
\* the ones _build_row_index has just read from the worksheet.
C27_FailedWriteKeepsOrBuildsIndex ==
    (ret.op \in {"upsert_row", "update_status"} /\ ret.raised) =>
        /\ grid = ret.grid
        /\ ret.before.sheets => sheets
        /\ \/ IndexAsBefore
           \/ /\ ~ret.before.indexed /\ ret.at = "write"
              /\ Sheet(grid, indexed, rowIndex, rowCount) = _build_row_index(CurSheet)

\* a write has raised with the index cached and holding a row
C27_Witness ==
    /\ ret.op = "upsert_row" /\ ret.raised /\ ret.at = "write"
    /\ ret.before.indexed /\ ret.before.sheets
    /\ DOMAIN rowIndex # {}
    /\ IndexAsBefore

----------------------------------------------------------------------------
\* Specification SpecRotate: rotate_to_archive on the worker thread while the
\* webhook handler, on the event loop, calls upsert_row / update_status.  A
\* thread's steps are separated at its requests to the spreadsheet and where
\* it reads or writes what the other thread can see.  The handler gets its
\* worksheet handle before it takes SheetSync.lock (643, 665); the worker
\* holds the lock from the rename to the caching of the fresh tab's handle.
\* A handle reads and writes cell values in the tab that bears the handle's
\* title at the time of the request; hLocal.title is the title of the
\* handle the handler holds, hLocal.landed the tab its write went to,
\* hLocal.renames the number of tabs archived when the handler got the handle.

MaxLate == 1         \* writes into the renamed tab that are counted

otherThanStore == <<varsEvents, clock, varsAmo, varsEngine>>

\* the title of a handle another thread holds, after ws.update_title on the
\* handle the cache holds
HeldAfterRename_Shared(title) == IF title = "main" THEN "arch" ELSE title

\* the title of a handle another thread holds, after ws.update_title on the
\* handle that line 541 has fetched for itself
HeldAfterRename(title) == title

InitRotate ==
    /\ InitStore
    /\ Len(grid) >= 2

\* ---- the worker thread: rotate_to_archive

\* line 537
RotLock ==
    /\ rpc = "idle" /\ sheetLock = "free"
    /\ archive # ArchiveNames
    /\ sheetLock' = "worker"
    /\ rpc' = "rename"
    /\ UNCHANGED <<grid, archive, indexed, rowIndex, rowCount, upserted, sheets, tabs,
                   hpc, hLocal, otherThanStore>>

\* lines 540-545: the tab is renamed, or there is none, or the request raises
\* and the exception leaves rotate_to_archive
RotRename(ok) ==
    /\ rpc = "rename"
    /\ IF ~ok
       THEN /\ rpc' = "idle" /\ sheetLock' = "free"
            /\ UNCHANGED <<grid, archive, tabs, hLocal>>
       ELSE /\ rpc' = "pop"
            /\ UNCHANGED sheetLock
            /\ IF tabs.main
               THEN /\ \E name \in ArchiveNames \ archive : archive' = archive \cup {name}
                    /\ tabs' = [main |-> FALSE, arch |-> grid, late |-> 0]
                    /\ grid' = <<>>
                    /\ hLocal' = [hLocal EXCEPT !.title = HeldAfterRename(@)]
               ELSE UNCHANGED <<grid, archive, tabs, hLocal>>
    /\ UNCHANGED <<indexed, rowIndex, rowCount, upserted, sheets, hpc, otherThanStore>>

\* lines 547-551
RotPop ==
    /\ rpc = "pop"
    /\ sheets' = FALSE
    /\ SetSheet(_invalidate_row_index(CurSheet))
    /\ rpc' = "lookup"
    /\ UNCHANGED <<archive, upserted, sheetLock, tabs, hpc, hLocal, otherThanStore>>

\* line 553, _get_or_create_sheet 503-509
RotLookup ==
    /\ rpc = "lookup"
    /\ rpc' = IF sheets THEN "done" ELSE IF tabs.main THEN "header" ELSE "add"
    /\ UNCHANGED <<grid, archive, indexed, rowIndex, rowCount, upserted, sheets,
                   sheetLock, tabs, hpc, hLocal, otherThanStore>>

\* line 510: add_worksheet raises when a tab of the name exists by now
RotAdd ==
    /\ rpc = "add"
    /\ IF tabs.main
       THEN /\ rpc' = "idle" /\ sheetLock' = "free"
            /\ UNCHANGED <<grid, tabs>>
       ELSE /\ rpc' = "header"
            /\ tabs' = [tabs EXCEPT !.main = TRUE]
            /\ grid' = <<>>
            /\ UNCHANGED sheetLock
    /\ UNCHANGED <<archive, indexed, rowIndex, rowCount, upserted, sheets, hpc, hLocal,
                   otherThanStore>>

\* lines 513-524: the header is written when the first row is not COLUMNS and
\* the index is dropped; the handle is cached; a request that raises leaves
\* rotate_to_archive
RotHeader(ok) ==
    /\ rpc = "header"
    /\ IF ~ok \/ ~tabs.main
       THEN /\ rpc' = "idle" /\ sheetLock' = "free"
            /\ UNCHANGED <<grid, indexed, rowIndex, rowCount, sheets>>
       ELSE /\ rpc' = "done"
            /\ IF Len(grid) = 0 \/ grid[1] # COLUMNS
               THEN SetSheet(_invalidate_row_index(
                                 [CurSheet EXCEPT !.grid = WriteRow(grid, 1, COLUMNS)]))
               ELSE UNCHANGED <<grid, indexed, rowIndex, rowCount>>
            /\ sheets' = TRUE
            /\ UNCHANGED sheetLock
    /\ UNCHANGED <<archive, upserted, tabs, hpc, hLocal, otherThanStore>>

\* line 554 and the end of the with block
RotUnlock ==
    /\ rpc = "done"
    /\ rpc' = "idle" /\ sheetLock' = "free"
    /\ UNCHANGED <<grid, archive, indexed, rowIndex, rowCount, upserted, sheets, tabs,
                   hpc, hLocal, otherThanStore>>

\* ---- the webhook handler: upsert_row / update_status

\* an exception leaves the call
HandlerRaises ==
    /\ hpc' = "idle"
    /\ hLocal' = [hLocal EXCEPT !.raised = TRUE]

\* lines 643 / 665, _get_or_create_sheet 503-504
HandlerCall(op, row) ==
    /\ hpc = "idle"
    /\ hLocal' = [op |-> op, row |-> row, raised |-> FALSE,
                  title |-> IF sheets THEN "main" ELSE "", landed |-> "",
                  renames |-> Cardinality(archive)]
    /\ hpc' = IF sheets THEN "lock" ELSE "lookup"
    /\ UNCHANGED <<grid, archive, indexed, rowIndex, rowCount, upserted, sheets,
                   sheetLock, tabs, rpc, otherThanStore>>

\* lines 506-509
HandlerLookup ==
    /\ hpc = "lookup"
    /\ hpc' = IF tabs.main THEN "header" ELSE "add"
    /\ hLocal' = [hLocal EXCEPT !.title = IF tabs.main THEN "main" ELSE "",
                                !.renames = Cardinality(archive)]
    /\ UNCHANGED <<grid, archive, indexed, rowIndex, rowCount, upserted, sheets,
                   sheetLock, tabs, rpc, otherThanStore>>

\* line 510
HandlerAdd ==
    /\ hpc = "add"
    /\ IF tabs.main
       THEN HandlerRaises /\ UNCHANGED <<grid, tabs>>
       ELSE /\ hpc' = "header"
            /\ hLocal' = [hLocal EXCEPT !.title = "main", !.renames = Cardinality(archive)]
            /\ tabs' = [tabs EXCEPT !.main = TRUE]
            /\ grid' = <<>>
    /\ UNCHANGED <<archive, indexed, rowIndex, rowCount, upserted, sheets, sheetLock,
                   rpc, otherThanStore>>

\* lines 513-524, outside the lock
HandlerHeader ==
    /\ hpc = "header"
    /\ IF ~tabs.main \/ hLocal.title # "main"
       THEN HandlerRaises /\ UNCHANGED <<grid, indexed, rowIndex, rowCount, sheets>>
       ELSE /\ hpc' = "lock"
            /\ IF Len(grid) = 0 \/ grid[1] # COLUMNS
               THEN SetSheet(_invalidate_row_index(
                                 [CurSheet EXCEPT !.grid = WriteRow(grid, 1, COLUMNS)]))
               ELSE UNCHANGED <<grid, indexed, rowIndex, rowCount>>
            /\ sheets' = TRUE
            /\ UNCHANGED hLocal
    /\ UNCHANGED <<archive, upserted, sheetLock, tabs, rpc, otherThanStore>>

\* lines 646 / 666
HandlerLock ==
    /\ hpc = "lock" /\ sheetLock = "free"
    /\ sheetLock' = "handler"
    /\ hpc' = "write"
    /\ UNCHANGED <<grid, archive, indexed, rowIndex, rowCount, upserted, sheets, tabs,
                   rpc, hLocal, otherThanStore>>

\* lines 647-662 / 667-671: under the lock, in the tab of the handle's title
HandlerWrite ==
    /\ hpc = "write"
    /\ sheetLock' = "free"
    /\ IF hLocal.title = "main"
       THEN /\ UNCHANGED tabs
            /\ IF ~tabs.main
               THEN HandlerRaises /\ UNCHANGED <<grid, indexed, rowIndex, rowCount>>
               ELSE /\ hpc' = "idle"
                    /\ hLocal' = [hLocal EXCEPT !.landed =
                                     IF hLocal.op = "upsert_row"
                                        \/ find_row(CurSheet, hLocal.row.id) # 0
                                     THEN "main" ELSE ""]
                    /\ SetSheet(SheetCall(CurSheet, hLocal.op, hLocal.row, "none"))
       ELSE /\ hpc' = "idle"
            /\ hLocal' = [hLocal EXCEPT !.landed = "arch"]
            /\ tabs' = [tabs EXCEPT !.arch = WriteRow(@, Len(@) + 1, hLocal.row),
                                    !.late = Min({@ + 1, MaxLate})]
            /\ UNCHANGED <<grid, indexed, rowIndex, rowCount>>
    /\ UNCHANGED <<archive, upserted, sheets, rpc, otherThanStore>>

RotateRows == {MkRow(i, "Success", "") : i \in Entities}

NextRotate ==
    \/ RotLock
    \/ \E ok \in BOOLEAN : RotRename(ok)
    \/ RotPop
    \/ RotLookup
    \/ RotAdd
    \/ \E ok \in BOOLEAN : RotHeader(ok)
    \/ RotUnlock
    \/ \E op \in {"upsert_row", "update_status"}, row \in RotateRows : HandlerCall(op, row)
    \/ HandlerLookup
    \/ HandlerAdd
    \/ HandlerHeader
    \/ HandlerLock
    \/ HandlerWrite

SpecRotate == InitRotate /\ [][NextRotate]_vars

\* the cached index maps every id to a row of the active tab that holds it
IndexInActiveTab ==
    indexed =>
        /\ tabs.main
        /\ \A i \in DOMAIN rowIndex :
             rowIndex[i] \in 1..Len(grid) /\ grid[rowIndex[i]].id = i

----------------------------------------------------------------------------
\* Specification of the poll worker's loop (on_startup.worker): each pass
\* calls check_and_rotate_sheet, expire_finished_leads and sync_sheet_to_amo;
\* any of them may raise.  The worker sleeps after the pass and starts the
\* next one with check_and_rotate_sheet.

SYNC_POLL_SECONDS == 60
QUOTA_BACKOFF_STEP == 60
QUOTA_BACKOFF_CAP == 300
MaxCounted == 7      \* the history counters of failed passes stop counting here

\* str(exc) as far as the worker looks at it: the markers it contains
Messages == SUBSET {"429", "Quota exceeded"}
IsQuotaError(msg) == "429" \in msg \/ "Quota exceeded" \in msg

CallAfter(c) == IF c = "rotate" THEN "expire" ELSE "sync"

NextBackoff_Flat(b) == QUOTA_BACKOFF_STEP

\* backoff = min(backoff + 60, 300)
NextBackoff(b) == Min({b + QUOTA_BACKOFF_STEP, QUOTA_BACKOFF_CAP})

Counted(n) == Min({n + 1, MaxCounted})

\* history: how the latest pass ended, how long the worker sleeps after it,
\* the number of passes in a row that ended in a quota error (run) and the
\* number of passes that ended in a quota error since the worker started or
\* a pass completed (since)
NoPass == [op |-> "pass", outcome |-> "", call |-> "", wait |-> 0, run |-> 0, since |-> 0]

InitWorker ==
    /\ StoreIdle /\ EventsIdle /\ TokenIdle /\ ClientIdle /\ clock = 0
    /\ crm = [e \in BatchLeadIds |-> 4]
    /\ crmOrder = [e \in BatchLeadIds |-> ""]
    /\ undelivered = [e \in BatchLeadIds |-> FALSE]
    /\ known = EmptyMap /\ knownOrder = EmptyMap /\ expiry = EmptyMap
    /\ dedup = EmptyMap /\ dirty = FALSE /\ disk = NoState
    /\ purged = {} /\ deliv = EmptyMap
    /\ wpc = "rotate"
    /\ backoff = 0
    /\ ret = NoPass

othersWorker == <<varsStore, varsEvents, clock, varsAmo, varsCrm, known, knownOrder,
                  expiry, dedup, dirty, disk, purged, deliv>>

\* one call of the pass returns
WorkerReturns ==
    /\ wpc \in {"rotate", "expire"}
    /\ wpc' = CallAfter(wpc)
    /\ UNCHANGED <<backoff, ret, othersWorker>>

\* sync_sheet_to_amo returns: backoff = 0, then time.sleep(SYNC_POLL_SECONDS)
WorkerCompletes ==
    /\ wpc = "sync"
    /\ backoff' = 0
    /\ wpc' = "sleep"
    /\ ret' = [op |-> "pass", outcome |-> "ok", call |-> wpc,
               wait |-> SYNC_POLL_SECONDS, run |-> 0, since |-> 0]
    /\ UNCHANGED othersWorker

\* one call of the pass raises an Exception with the message msg
WorkerCatches(msg) ==
    /\ wpc \in {"rotate", "expire", "sync"}
    /\ wpc' = "sleep"
    /\ IF IsQuotaError(msg)
       THEN /\ backoff' = NextBackoff(backoff)
            /\ ret' = [op |-> "pass", outcome |-> "quota", call |-> wpc,
                       wait |-> backoff', run |-> Counted(ret.run),
                       since |-> Counted(ret.since)]
       ELSE /\ UNCHANGED backoff
            /\ ret' = [op |-> "pass", outcome |-> "other", call |-> wpc,
                       wait |-> SYNC_POLL_SECONDS, run |-> 0, since |-> ret.since]
    /\ UNCHANGED othersWorker

\* time.sleep returns: the loop starts the next pass
WorkerWakes ==
    /\ wpc = "sleep"
    /\ wpc' = "rotate"
    /\ UNCHANGED <<backoff, ret, othersWorker>>

NextWorker ==
    \/ WorkerReturns
    \/ WorkerCompletes
    \/ \E msg \in Messages : WorkerCatches(msg)
    \/ WorkerWakes

SpecWorker == InitWorker /\ [][NextWorker]_vars /\ WF_vars(NextWorker)

QuotaWait(k) == Min({QUOTA_BACKOFF_STEP * k, QUOTA_BACKOFF_CAP})

\* what holds after every pass, whichever way the quota failures are counted
PassRules(k) ==
    /\ wpc \in {"rotate", "expire", "sync", "sleep"}
    /\ ret.outcome = "quota" => ret.wait = QuotaWait(k) /\ backoff = ret.wait
    /\ ret.outcome = "ok" => backoff = 0 /\ ret.wait = SYNC_POLL_SECONDS
    /\ ret.outcome = "other" => ret.wait = SYNC_POLL_SECONDS

\* C29 as stated: the worker always comes back to the start of a pass, and
\* after k passes in a row that ended in a quota error it sleeps
\* min(60*k, 300) seconds; a completed pass sets backoff to 0; a failure
\* that is no quota error sleeps the poll interval.
C29_BackoffConsecutive ==
    /\ [](PassRules(ret.run))
    /\ []<>(wpc = "rotate")

\* C29 (amended): the same with k counting the passes that ended in a quota
\* error since the worker started or a pass completed, failures of another
\* kind in between neither counting nor resetting.
C29_BackoffSinceCompleted ==
    /\ [](PassRules(ret.since))
    /\ []<>(wpc = "rotate")

\* a quota error, a failure of another kind, a quota error: the worker
\* sleeps 120 seconds after one quota error in a row
C29_Witness ==
    /\ wpc = "sleep"
    /\ ret.outcome = "quota"
    /\ ret.run = 1 /\ ret.since = 2
    /\ ret.wait = 2 * QUOTA_BACKOFF_STEP

----------------------------------------------------------------------------
\* Specification of AmoClient.fetch_leads_by_date_range: the loop over the
\* pages of /api/v4/leads.  The CRM is a book of answers, one per page
\* number, and the answer it gives to every page number past the book.

MaxPages == 3        \* answers in the book
MaxPageLeads == 2    \* leads in one page

\* the answer to one page request, as _api_request hands it to get: the
\* status code, whether the body is non-empty, the leads and the next link
\* of a JSON body, and whether the text of the RuntimeError that get raises
\* for it contains "204" or "No Content"
PageAnswers ==
    [status : {200}, text : {TRUE}, leads : 0..MaxPageLeads, next : BOOLEAN, says204 : {FALSE}]
    \cup [status : {200, 204, 400}, text : {FALSE}, leads : {0}, next : {FALSE}, says204 : {FALSE}]
    \cup [status : {400}, text : {TRUE}, leads : {0}, next : {FALSE}, says204 : BOOLEAN]

NoContent == [status |-> 204, text |-> FALSE, leads |-> 0, next |-> FALSE, says204 |-> FALSE]
FullPage == [status |-> 200, text |-> TRUE, leads |-> 1, next |-> TRUE, says204 |-> FALSE]

\* the leads of page p: data["_embedded"]["leads"]
PageLeads(p, a) == [i \in 1..a.leads |-> <<p, i>>]

\* AmoClient.get: {} for 204 or an empty body, RuntimeError for a status
\* of 400 and above, the JSON body otherwise
get(p, a) ==
    IF a.status = 204 \/ ~a.text
    THEN [raised |-> FALSE, says204 |-> FALSE, leads |-> <<>>, next |-> FALSE]
    ELSE IF a.status >= 400
    THEN [raised |-> TRUE, says204 |-> a.says204, leads |-> <<>>, next |-> FALSE]
    ELSE [raised |-> FALSE, says204 |-> FALSE, leads |-> PageLeads(p, a), next |-> a.next]

\* the CRM's answer to the request for page p
AnswerTo(book, past, p) == IF p <= Len(book) THEN book[p] ELSE past

LoopOn_IgnoresNext(d) == d.leads # <<>>

\* the loop goes on to the next page: leads came and _links.next is there
LoopOn(d) == d.leads # <<>> /\ d.next

\* one pass of the while loop on the locals f = [pc, page, all_leads, requested]
FetchPass(book, past, f) ==
    LET d == get(f.page, AnswerTo(book, past, f.page))
        asked == Append(f.requested, f.page)
    IN  IF d.raised
        THEN IF d.says204
             THEN [f EXCEPT !.pc = "returned", !.requested = asked]
             ELSE [f EXCEPT !.pc = "raised", !.requested = asked]
        ELSE IF LoopOn(d)
        THEN [f EXCEPT !.page = f.page + 1, !.all_leads = f.all_leads \o d.leads,
                       !.requested = asked]
        ELSE [f EXCEPT !.pc = "returned", !.all_leads = f.all_leads \o d.leads,
                       !.requested = asked]

Books == UNION {[1..n -> PageAnswers] : n \in 1..MaxPages}

InitFetch ==
    /\ StoreIdle /\ EventsIdle /\ TokenIdle /\ ClientIdle
    /\ clock = 0
    /\ crm = [e \in BatchLeadIds |-> 4]
    /\ crmOrder = [e \in BatchLeadIds |-> ""]
    /\ undelivered = [e \in BatchLeadIds |-> FALSE]
    /\ known = EmptyMap /\ knownOrder = EmptyMap /\ expiry = EmptyMap
    /\ dedup = EmptyMap /\ wpc = "expire" /\ backoff = 0
    /\ dirty = FALSE /\ disk = NoState
    /\ purged = {} /\ deliv = EmptyMap
    /\ \E book \in Books, past \in {NoContent, FullPage} :
         ret = [op |-> "fetch", book |-> book, past |-> past, pc |-> "loop",
                page |-> 1, all_leads |-> <<>>, requested |-> <<>>]

\* one pass of the loop: one page request and what the loop does with it
FetchPage ==
    /\ ret.pc = "loop"
    /\ ret.page <= MaxPages + 1
    /\ \E f \in {FetchPass(ret.book, ret.past,
                           [pc |-> ret.pc, page |-> ret.page,
                            all_leads |-> ret.all_leads, requested |-> ret.requested])} :
         ret' = [ret EXCEPT !.pc = f.pc, !.page = f.page,
                            !.all_leads = f.all_leads, !.requested = f.requested]
    /\ UNCHANGED <<varsStore, varsEvents, clock, varsAmo, varsCrm, varsSync, purged, deliv>>

NextFetch == FetchPage

SpecFetch == InitFetch /\ [][NextFetch]_vars /\ WF_vars(NextFetch)

\* a page that is empty or no-content, or that carries no next-page link
LastPage(a) == a.status = 204 \/ ~a.text \/ a.leads = 0 \/ ~a.next

\* the CRM returns such a page at some page number
HasLastPage(book, past) == LastPage(past) \/ \E p \in 1..Len(book) : LastPage(book[p])

\* the first such page
FirstLastPage(book, past) ==
    IF \E p \in 1..Len(book) : LastPage(book[p])
    THEN Min({p \in 1..Len(book) : LastPage(book[p])})
    ELSE Len(book) + 1

RECURSIVE EntitiesUpTo(_, _)
EntitiesUpTo(book, n) ==
    IF n = 0 THEN <<>>
    ELSE EntitiesUpTo(book, n - 1)
         \o (IF n <= Len(book) /\ book[n].status = 200 /\ book[n].text
             THEN PageLeads(n, book[n]) ELSE <<>>)

\* C30: what fetch_leads_by_date_range returns is, in order, the entities
\* of pages 1..n, n the first page that is empty or no-content or carries no
\* next-page link; the pages it requests are 1, 2, ... and none after n; and
\* when the CRM returns such a page the call ends.
C30_Pagination ==
    /\ [](ret.requested = [i \in 1..Len(ret.requested) |-> i])
    /\ [](HasLastPage(ret.book, ret.past) =>
             Len(ret.requested) <= FirstLastPage(ret.book, ret.past))
    /\ [](ret.pc = "returned" =>
             /\ Len(ret.requested) = FirstLastPage(ret.book, ret.past)
             /\ ret.all_leads = EntitiesUpTo(ret.book, Len(ret.requested)))
    /\ (HasLastPage(ret.book, ret.past) => <>(ret.pc # "loop"))

\* two pages with leads and a next link, then a page with leads and no next
\* link: the call returned the leads of the three pages after three requests
C30_Witness ==
    /\ ret.op = "fetch" /\ ret.pc = "returned"
    /\ Len(ret.book) = 3
    /\ ret.requested = <<1, 2, 3>>
    /\ \A p \in 1..2 : ret.book[p].leads = 2 /\ ret.book[p].next
    /\ ret.book[3].leads = 1 /\ ~ret.book[3].next
    /\ ret.all_leads = <<<<1, 1>>, <<1, 2>>, <<2, 1>>, <<2, 2>>, <<3, 1>>>>

\* an empty page that carries a next link ends the call: page 3 is not asked for
C30_WitnessEmpty ==
    /\ ret.op = "fetch" /\ ret.pc = "returned"
    /\ Len(ret.book) = 3
    /\ ret.book[1].leads = 1 /\ ret.book[1].next
    /\ ret.book[2].status = 200 /\ ret.book[2].text /\ ret.book[2].leads = 0 /\ ret.book[2].next
    /\ ret.book[3].leads = 2
    /\ ret.requested = <<1, 2>>
    /\ ret.all_leads = <<<<1, 1>>>>

----------------------------------------------------------------------------
\* Specification SpecOrder: two notifications about one lead with different
\* status ids are delivered one after the other, the CRM and the clock moving
\* as they will in between.  Beside the run, ret.alt holds the engine as it
\* would be had the two been delivered in the other order at the same two
\* moments, with the same answers of the CRM.

NoPair == [op |-> "none", raised |-> FALSE, flushes |-> 0, seen |-> 0]

\* process_webhook_leads on one lead from the engine state st
Deliver(st, e, sid, now, amo) ==
    LET r == process_webhook_leads(
                 [sh |-> st.sh, known |-> st.known, knownOrder |-> st.knownOrder,
                  expiry |-> st.expiry, dedup |-> st.dedup, dirty |-> st.dirty,
                  disk |-> st.disk, w |-> 0, written |-> 0, flushes |-> 0,
                  muts |-> 0, raised |-> FALSE, seen |-> 0, deliv |-> EmptyMap],
                 <<[id |-> e, status_id |-> sid, fetch |-> "ok", sheet |-> "ok"]>>,
                 now, amo)
    IN  [sh |-> r.sh, known |-> r.known, knownOrder |-> r.knownOrder,
         expiry |-> r.expiry, dedup |-> r.dedup, dirty |-> r.dirty, disk |-> r.disk]

EngineNow ==
    [sh |-> CurSheet, known |-> known, knownOrder |-> knownOrder, expiry |-> expiry,
     dedup |-> dedup, dirty |-> dirty, disk |-> disk]

AmoNow == [crm |-> crm, crmOrder |-> crmOrder]

\* neither notification was delivered less than TTL ago
NotRecent(dd, e, sid) ==
    ~(<<e, sid>> \in DOMAIN dd /\ clock - dd[<<e, sid>>] < WEBHOOK_DEDUP_TTL_SEC)

\* what came before the pair: webhooks whose GET answers
PairPrelude(lead) ==
    /\ ret.op = "none"
    /\ lead.fetch = "ok"
    /\ Push(<<lead>>)

PairCrmChange(e, s) == ret.op \in {"none", "first"} /\ CrmChange(e, s)

PairTick == ret.op \in {"none", "first"} /\ Advance(LongStep, MaxTime) /\ UNCHANGED deliv

\* the first delivery: (e, a) in the run, (e, b) beside it
PairFirst(e, a, b) ==
    /\ ret.op = "none"
    /\ a # b
    /\ NotRecent(dedup, e, a) /\ NotRecent(dedup, e, b)
    /\ \E st1 \in {Deliver(EngineNow, e, a, clock, AmoNow)} :
         /\ SetSheet(st1.sh)
         /\ known' = st1.known /\ knownOrder' = st1.knownOrder
         /\ expiry' = st1.expiry /\ dedup' = st1.dedup
         /\ dirty' = st1.dirty /\ disk' = st1.disk
    /\ ret' = [op |-> "first", lead |-> e, a |-> a, b |-> b, t1 |-> clock,
               crm1 |-> crm[e], t2 |-> clock, crm2 |-> crm[e],
               alt |-> Deliver(EngineNow, e, b, clock, AmoNow)]
    /\ UNCHANGED <<crm, crmOrder, undelivered, wpc, backoff, purged, deliv, clock,
                   othersEngine>>

\* the second delivery: (e, b) in the run, (e, a) beside it
PairSecond ==
    /\ ret.op = "first"
    /\ \E st1 \in {Deliver(EngineNow, ret.lead, ret.b, clock, AmoNow)} :
         /\ SetSheet(st1.sh)
         /\ known' = st1.known /\ knownOrder' = st1.knownOrder
         /\ expiry' = st1.expiry /\ dedup' = st1.dedup
         /\ dirty' = st1.dirty /\ disk' = st1.disk
    /\ ret' = [ret EXCEPT !.op = "second", !.t2 = clock, !.crm2 = crm[ret.lead],
                          !.alt = Deliver(ret.alt, ret.lead, ret.a, clock, AmoNow)]
    /\ UNCHANGED <<crm, crmOrder, undelivered, wpc, backoff, purged, deliv, clock,
                   othersEngine>>

InitOrder ==
    /\ StoreIdle /\ EventsIdle /\ TokenIdle /\ ClientIdle /\ clock = 0
    /\ crm = [e \in BatchLeadIds |-> 4]
    /\ crmOrder = [e \in BatchLeadIds |-> ""]
    /\ undelivered = [e \in BatchLeadIds |-> FALSE]
    /\ known = EmptyMap /\ knownOrder = EmptyMap /\ expiry = EmptyMap
    /\ dedup = EmptyMap /\ wpc = "expire" /\ backoff = 0
    /\ dirty = FALSE /\ disk = NoState
    /\ purged = {} /\ deliv = EmptyMap
    /\ ret = NoPair

NextOrder ==
    \/ \E lead \in Leads : PairPrelude(lead)
    \/ \E e \in LeadIds, s \in StatusIds : PairCrmChange(e, s)
    \/ PairTick
    \/ \E e \in LeadIds, a, b \in StatusIds : PairFirst(e, a, b)
    \/ PairSecond

SpecOrder == InitOrder /\ [][NextOrder]_vars

\* the status cell, known_status and expiry of lead e in the engine state st
Outcome(st, e) ==
    [cell |-> IF RowsOf(st.sh.grid, e) # {}
              THEN st.sh.grid[Min(RowsOf(st.sh.grid, e))].status ELSE "",
     row |-> RowsOf(st.sh.grid, e) # {},
     known |-> Get(st.known, e, ""),
     armed |-> e \in DOMAIN st.expiry,
     expiry |-> Get(st.expiry, e, 0)]

\* C33: two notifications about the same lead with different statuses leave
\* the same status cell, known_status and expiry whichever is delivered first.
C33_OrderIndependence ==
    ret.op = "second" => Outcome(EngineNow, ret.lead) = Outcome(ret.alt, ret.lead)

\* C33 when the CRM holds one status throughout and both are delivered in
\* the same instant
C33_SameInstantSameStatus ==
    (ret.op = "second" /\ ret.t1 = ret.t2 /\ ret.crm1 = ret.crm2)
        => Outcome(EngineNow, ret.lead) = Outcome(ret.alt, ret.lead)

\* C33 when the CRM holds one status throughout
C33_SameStatus ==
    (ret.op = "second" /\ ret.crm1 = ret.crm2)
        => Outcome(EngineNow, ret.lead) = Outcome(ret.alt, ret.lead)

----------------------------------------------------------------------------
\* Specification SpecEcho: the webhook handler (event loop thread) and the
\* poll worker (its own thread) run side by side.  The handler's steps are
\* the part of process_webhook_leads up to and including the write to the
\* table, and the remember_* calls and flush_state after it; the worker's are
\* expire_finished_leads, the read of the rows (iter_lead_statuses) and the
\* loop over the rows it read.  No operator edits the table.

echoRest == <<archive, sheets, sheetLock, tabs, rpc, upserted, varsEvents, varsAmo,
              undelivered, backoff, purged, deliv, clock>>

\* the handler ran while the worker was between its read and its loop
Mixed == IF wpc = "rows" THEN [ret EXCEPT !.mixed = TRUE] ELSE ret

\* a delivery that writes nothing to the table, in one step
EchoPushWhole(lead) ==
    /\ hpc = "idle"
    /\ lead.fetch = "ok"
    /\ \E st1 \in {WebhookResult(<<lead>>)} :
         /\ st1.w = 0
         /\ SetSheet(st1.sh)
         /\ dedup' = st1.dedup
         /\ known' = st1.known /\ knownOrder' = st1.knownOrder
         /\ expiry' = st1.expiry /\ dirty' = st1.dirty /\ disk' = st1.disk
    /\ ret' = Mixed
    /\ UNCHANGED <<hpc, hLocal, crm, crmOrder, wpc, echoRest>>

\* a delivery up to the return of upsert_row or update_status
EchoPushWrite(lead) ==
    /\ hpc = "idle"
    /\ lead.id # "" /\ lead.fetch = "ok"
    /\ \E st1 \in {WebhookResult(<<lead>>)} :
         /\ st1.w > 0
         /\ SetSheet(st1.sh)
         /\ dedup' = st1.dedup
         /\ hLocal' = [op |-> "push", lead |-> lead.id,
                       value |-> st1.known[lead.id],
                       trigger |-> crm[lead.id] \in trigger_status_ids]
    /\ hpc' = "wrote"
    /\ ret' = Mixed
    /\ UNCHANGED <<known, knownOrder, expiry, dirty, disk, crm, crmOrder, wpc, echoRest>>

\* the rest of the delivery: remember_sheet_status, then
\* remember_sheet_order_number or _set_expiry_for_status, then flush_state
EchoPushRemember ==
    /\ hpc = "wrote"
    /\ LET s0 == [known |-> known, knownOrder |-> knownOrder, expiry |-> expiry,
                  dirty |-> dirty, disk |-> disk, flushes |-> 0, muts |-> 0]
           s1 == remember_sheet_status(s0, hLocal.lead, hLocal.value)
           s2 == IF hLocal.trigger
                 THEN remember_sheet_order_number(s1, hLocal.lead, "")
                 ELSE _set_expiry_for_status(s1, hLocal.lead, hLocal.value, clock)
       IN  \E st1 \in {flush_state(s2)} :
             /\ known' = st1.known /\ knownOrder' = st1.knownOrder
             /\ expiry' = st1.expiry /\ dirty' = st1.dirty /\ disk' = st1.disk
    /\ hpc' = "idle"
    /\ hLocal' = NoWrite
    /\ ret' = Mixed
    /\ UNCHANGED <<grid, indexed, rowIndex, rowCount, dedup, crm, crmOrder, wpc, echoRest>>

\* rows = self.sheet.iter_lead_statuses()
EchoPollRead ==
    /\ wpc = "sync"
    /\ wpc' = "rows"
    /\ ret' = [op |-> "poll", rows |-> iter_lead_statuses(grid), busy |-> hpc # "idle",
               mixed |-> FALSE, done |-> FALSE, patched |-> {}]
    /\ UNCHANGED <<hpc, hLocal, grid, indexed, rowIndex, rowCount, dedup, known,
                   knownOrder, expiry, dirty, disk, crm, crmOrder, echoRest>>

\* the loop over the rows read, then flush_state
EchoPollRows ==
    /\ wpc = "rows"
    /\ \E st1 \in {flush_state(SyncRows(
                       [known |-> known, knownOrder |-> knownOrder, expiry |-> expiry,
                        crm |-> crm, crmOrder |-> crmOrder, dirty |-> dirty,
                        disk |-> disk, patched |-> {}, dispatched |-> {},
                        examined |-> {}, flushes |-> 0, muts |-> 0],
                       ret.rows, 1, {}))} :
         /\ SyncDoes(st1)
         /\ ret' = [ret EXCEPT !.done = TRUE, !.patched = st1.patched]
    /\ wpc' = "expire"
    /\ UNCHANGED backoff

EchoCrmChange(e, s) == hpc = "idle" /\ CrmChange(e, s)

NextEcho ==
    \/ \E e \in LeadIds, s \in StatusIds : EchoCrmChange(e, s)
    \/ \E lead \in Leads : EchoPushWhole(lead)
    \/ \E lead \in Leads : EchoPushWrite(lead)
    \/ EchoPushRemember
    \/ WorkerExpire
    \/ EchoPollRead
    \/ EchoPollRows

SpecEcho == Init /\ [][NextEcho]_vars

\* C34: whatever the interleaving of the handler with the poll cycle, the
\* cycle sends no PATCH for a lead because of a value the handler wrote into
\* its status cell (nobody else writes the table here).
C34_NoEcho == (ret.op = "poll" /\ ret.done) => ret.patched = {}

----------------------------------------------------------------------------
\* Specification SpecRace: two threads call _is_duplicate_webhook for the
\* same (lead id, status id) at the same time, after any earlier deliveries.
\* A call reads time.time() (line 834) and then runs the block under
\* _dedup_lock (836-844) in one step.  Time is counted in halves of the TTL
\* and the two calls together last less than the TTL.  ret holds the calls:
\* where each thread stands, the time it read, and its answer.

RaceKey == <<"e1", 1>>

\* an earlier delivery of any key
RacePrelude(k) == ret.op \in {"none", "dedup"} /\ DedupCheck(k[1], k[2])

RaceTick ==
    /\ ret.op \in {"none", "dedup"} \/ (ret.op = "race" /\ clock + 1 - ret.start < DEDUP_TTL_HALVES)
    /\ DedupTick
    /\ UNCHANGED ret

raceRest == <<varsStore, varsEvents, varsAmo, varsCrm, known, knownOrder,
              expiry, wpc, backoff, dirty, disk, purged, deliv, clock>>

\* both threads enter _is_duplicate_webhook(lead_id, status_id)
RaceStart ==
    /\ ret.op \in {"none", "dedup"}
    /\ ret' = [op |-> "race", start |-> clock, before |-> dedup,
               pc |-> [t \in Threads |-> "called"],
               now |-> [t \in Threads |-> 0],
               dup |-> [t \in Threads |-> FALSE]]
    /\ UNCHANGED <<dedup, raceRest>>

\* now = time.time()
RaceNow(t) ==
    /\ ret.op = "race" /\ ret.pc[t] = "called"
    /\ ret' = [ret EXCEPT !.pc[t] = "timed", !.now[t] = clock]
    /\ UNCHANGED <<dedup, raceRest>>

\* with self._dedup_lock: evict, test, record
RaceCheck(t) ==
    /\ ret.op = "race" /\ ret.pc[t] = "timed"
    /\ \E r \in {IsDuplicate(DEDUP_TTL_HALVES, dedup, RaceKey[1], RaceKey[2], ret.now[t])} :
         /\ dedup' = r.dedup
         /\ ret' = [ret EXCEPT !.pc[t] = "done", !.dup[t] = r.dup]
    /\ UNCHANGED raceRest

NextRace ==
    \/ \E k \in DedupKeys : RacePrelude(k)
    \/ RaceTick
    \/ RaceStart
    \/ \E t \in Threads : RaceNow(t)
    \/ \E t \in Threads : RaceCheck(t)

SpecRace == Init /\ [][NextRace]_vars

RaceOver == ret.op = "race" /\ \A t \in Threads : ret.pc[t] = "done"
Proceeding == {t \in Threads : ~ret.dup[t]}

\* C36 as stated: of two concurrent calls for the same (lead id, status id)
\* exactly one answers false, in every interleaving.
C36_ExactlyOneProceeds == RaceOver => Cardinality(Proceeding) = 1

\* C36 (amended): at most one of the two answers false, and exactly one
\* does when the pair was not recorded less than the TTL before the calls.
C36_AtMostOneProceeds ==
    RaceOver =>
        /\ Cardinality(Proceeding) <= 1
        /\ ~Recent(ret.before, RaceKey, ret.start) => Cardinality(Proceeding) = 1

\* the thread that read the clock first took the lock second and was told
\* duplicate; the other one proceeds
C36_Witness ==
    /\ RaceOver
    /\ ~Recent(ret.before, RaceKey, ret.start)
    /\ ret.now["t1"] < ret.now["t2"]
    /\ ret.dup["t1"] /\ ~ret.dup["t2"]
    /\ dedup[RaceKey] = ret.now["t2"]

----------------------------------------------------------------------------
\* Specification SpecReplay: one lead; the CRM moves it, and notifications
\* of any status are delivered one per request, the spreadsheet answering or
\* raising.  ret records how the latest delivery ended: "duplicate" when
\* _is_duplicate_webhook answered true, "aborted" when a spreadsheet request
\* raised and the exception left the handler, "written" when a branch counted
\* a write, "skipped" when a filter or a guard dropped the lead.

ReplayLeads ==
    {[id |-> i, status_id |-> s, fetch |-> "ok", sheet |-> q] :
        i \in LeadIds, s \in StatusIds, q \in {"ok", "raise"}}

KeyOf(lead) == <<lead.id, lead.status_id>>

HandlerOutcome(lead, st1) ==
    IF _is_duplicate_webhook(dedup, lead.id, lead.status_id, clock).dup THEN "duplicate"
    ELSE IF st1.raised THEN "aborted"
    ELSE IF st1.written > 0 THEN "written"
    ELSE "skipped"

ReplayPush(lead) ==
    \E st1 \in {WebhookResult(<<lead>>)} :
        /\ WebhookDoes(st1)
        /\ ret' = [op |-> "push", key |-> KeyOf(lead), ts |-> clock,
                   outcome |-> HandlerOutcome(lead, st1)]
        /\ UNCHANGED <<deliv, undelivered>>

ReplayTick == Advance(LongStep, MaxTime) /\ UNCHANGED deliv

NextReplay ==
    \/ \E e \in LeadIds, s \in StatusIds : CrmChange(e, s)
    \/ \E lead \in ReplayLeads : ReplayPush(lead)
    \/ ReplayTick

SpecReplay == Init /\ [][NextReplay]_vars

\* the latest delivery was of this notification, less than the TTL ago, and
\* its processing was skipped by a filter or aborted by an error
LeftUnhandled(lead) ==
    /\ ret.op = "push"
    /\ ret.key = KeyOf(lead)
    /\ ret.outcome \in {"skipped", "aborted"}
    /\ clock - ret.ts < WEBHOOK_DEDUP_TTL_SEC

\* C37: a notification whose processing was skipped by a filter or aborted
\* by an error before its table write is processed again, and not suppressed
\* as a duplicate, when it is replayed within the dedup TTL.
C37_UnhandledReplayProcessed ==
    [][\A lead \in ReplayLeads :
          (LeftUnhandled(lead) /\ ReplayPush(lead)) => ret'.outcome # "duplicate"]_vars

\* what the code does: every delivery that reaches the dedup test leaves its
\* key recorded, however its processing ends
C37_EveryDeliveryRecorded ==
    ret.op = "push" =>
        /\ ret.key \in DOMAIN dedup
        /\ ret.outcome # "duplicate" => dedup[ret.key] = ret.ts

\* a status change is lost: the creating notification was aborted by the
\* spreadsheet, its replay was suppressed, and the lead has no row
C37_NoChangeLost ==
    \A e \in LeadIds :
        (ret.op = "push" /\ ret.key = <<e, crm[e]>> /\ ret.outcome = "duplicate"
            /\ crm[e] \in trigger_status_ids)
        => HasRow(e)

----------------------------------------------------------------------------
\* Specification SpecSummary: the summary process_webhook_leads returns.  One
\* lead and the lead without an id, in batches of one or two; a notification
\* carries the CRM's current status, its updated_at and its pipeline, and the
\* GET answers.  Both filters are configured: LEADS_CREATED_AFTER, in the
\* clock's units, and PIPELINE_KEYWORD.  ret holds the summary of the latest
\* batch and, as history, uncounted: the leads the loop left by a continue
\* that adds to no counter.

LEADS_CREATED_AFTER == 2
PIPELINE_KEYWORD == "sotuv"

UpdatedAts == {0, LEADS_CREATED_AFTER - 1, LEADS_CREATED_AFTER + 1}

\* self.pipeline_id_to_name, and the names PIPELINE_KEYWORD occurs in
pipeline_id_to_name == (1 :> "Sotuv") @@ (2 :> "Servis")
PipelineIds == {1, 2}
KeywordIn(name) == name \in {"sotuv", "yangi sotuv"}
Lower(name) == IF name = "Sotuv" THEN "sotuv" ELSE IF name = "Servis" THEN "servis" ELSE name

SummaryLeads ==
    {[id |-> i, status_id |-> crm[i], fetch |-> "ok", sheet |-> "ok",
      updated_at |-> u, pipeline_id |-> p] :
        i \in LeadIds, u \in UpdatedAts, p \in PipelineIds}
    \cup {[id |-> "", status_id |-> 1, fetch |-> "ok", sheet |-> "ok",
           updated_at |-> 0, pipeline_id |-> 1]}
SummaryBatches ==
    {<<l>> : l \in SummaryLeads} \cup {<<p[1], p[2]>> : p \in SummaryLeads \X SummaryLeads}

Counters == {"written", "skipped_no_id", "skipped_duplicate",
             "skipped_status_mismatch", "skipped_too_old"}
NoTally == [c \in Counters \cup {"uncounted"} |-> 0]

TooOld(full_lead) ==
    /\ LEADS_CREATED_AFTER # 0
    /\ full_lead.updated_at # 0
    /\ full_lead.updated_at < LEADS_CREATED_AFTER

WrongPipeline(full_lead) ==
    /\ PIPELINE_KEYWORD # ""
    /\ ~KeywordIn(Lower(Get(pipeline_id_to_name, full_lead.pipeline_id, "")))

\* the guard of the terminal branch and of the tracked branch
CourierGuard(display_name, known_status) ==
    Get(AMO_STATUS_TO_SHEET_OVERRIDE, display_name, display_name) = "Courier"
        /\ known_status = "InProcess"

\* the counter the loop body adds to for one lead, "uncounted" when it adds
\* to none
CounterOf(st, lead, now, amo) ==
    IF lead.id = "" THEN "skipped_no_id"
    ELSE
    LET dd == _is_duplicate_webhook(st.dedup, lead.id, lead.status_id, now)
        is_trigger == lead.status_id \in trigger_status_ids
        is_terminal == lead.status_id \in DOMAIN terminal_status_id_to_name
        known_status == get_known_sheet_status(st, lead.id)
        status_id == IF lead.fetch = "ok" THEN amo.crm[lead.id] ELSE lead.status_id
    IN  IF dd.dup THEN "skipped_duplicate"
        ELSE IF is_lead_expired(st, lead.id, now) THEN "skipped_status_mismatch"
        ELSE IF ~(is_trigger \/ is_terminal \/ known_status # "")
            THEN "skipped_status_mismatch"
        ELSE IF TooOld(lead) THEN "skipped_too_old"
        ELSE IF WrongPipeline(lead) THEN "uncounted"
        ELSE IF status_id \in trigger_status_ids THEN "written"
        ELSE IF status_id \in DOMAIN terminal_status_id_to_name
            THEN IF CourierGuard(terminal_status_id_to_name[status_id], known_status)
                 THEN "skipped_status_mismatch" ELSE "written"
        ELSE IF known_status # ""
            THEN IF CourierGuard(Get(status_id_to_display_name, status_id, "?"), known_status)
                 THEN "skipped_status_mismatch" ELSE "written"
        ELSE "skipped_status_mismatch"

\* the loop body with the two filters between the GET and the branches
SummaryLead(st, lead, now, amo) ==
    LET c == CounterOf(st, lead, now, amo)
        s1 == IF c \in {"skipped_too_old", "uncounted"}
              THEN [st EXCEPT !.dedup =
                        _is_duplicate_webhook(st.dedup, lead.id, lead.status_id, now).dedup]
              ELSE ProcessLead(st, lead, now, amo)
    IN  [s1 EXCEPT !.tally[c] = @ + 1]

RECURSIVE SummaryLeadsFrom(_, _, _, _, _)
SummaryLeadsFrom(st, leads, i, now, amo) ==
    IF i > Len(leads) \/ st.raised THEN st
    ELSE SummaryLeadsFrom(SummaryLead(st, leads[i], now, amo), leads, i + 1, now, amo)

SummaryResult(leads) ==
    LET st0 == [sh |-> CurSheet, known |-> known, knownOrder |-> knownOrder,
                expiry |-> expiry, dedup |-> dedup, dirty |-> dirty, disk |-> disk,
                w |-> 0, written |-> 0, flushes |-> 0, muts |-> 0, raised |-> FALSE,
                seen |-> 0, deliv |-> deliv, tally |-> NoTally]
    IN  flush_state(SummaryLeadsFrom(st0, leads, 1, clock, [crm |-> crm, crmOrder |-> crmOrder]))

PushSummary(leads) ==
    \E st1 \in {SummaryResult(leads)} :
        /\ WebhookDoes(st1)
        /\ ret' = [op |-> "push", received |-> Len(leads), tally |-> st1.tally,
                   writes |-> st1.written]
        /\ UNCHANGED <<deliv, undelivered>>

NextSummary ==
    \/ \E e \in LeadIds, s \in StatusIds : CrmChange(e, s)
    \/ \E leads \in SummaryBatches : PushSummary(leads)
    \/ ReplayTick

SpecSummary == Init /\ [][NextSummary]_vars

RECURSIVE SumOver(_, _)
SumOver(f, S) ==
    IF S = {} THEN 0
    ELSE LET c == CHOOSE x \in S : TRUE IN f[c] + SumOver(f, S \ {c})

\* C38: for every batch that returns, received = written + skipped_no_id +
\* skipped_duplicate + skipped_status_mismatch + skipped_too_old: every
\* received lead is counted in exactly one of the five counters, the leads
\* dropped by the pipeline keyword filter included.
C38_SummaryAccounts ==
    ret.op = "push" => ret.received = SumOver(ret.tally, Counters)

\* what the code does: the five counters and the leads dropped by the
\* pipeline keyword filter add up to received, and written counts the
\* writes of the branches
C38_SummaryAccountsButPipeline ==
    ret.op = "push" =>
        /\ ret.received = SumOver(ret.tally, Counters) + ret.tally["uncounted"]
        /\ ret.tally["written"] = ret.writes

----------------------------------------------------------------------------
\* Specification SpecPeriod: check_and_rotate_sheet, called by the worker at
\* the start of each pass, with SHEET_ROTATION_INTERVAL = "monthly".  The
\* calendar moves from one month to the next between calls.  ret holds
\*   key       self.state["active_sheet_month"], NoKey when absent
\*   month     the number of the calendar month datetime.now() is in
\*   main      whether the spreadsheet has a tab named GOOGLE_WORKSHEET_NAME
\*   header    whether the first row of that tab is COLUMNS
\*   archives  the titles of the archived tabs
\* and, as history: rolls, the changes of month so far; succ, the calls of
\* rotate_to_archive that returned; fails, those that raised (counted up to
\* MaxFails); last, what the latest call of check_and_rotate_sheet did.
\* The spreadsheet refuses to give a tab the title of another tab.  A request
\* of rotate_to_archive may raise: fail names the one that does.

MaxMonths == 4      \* calendar months the clock goes through
MaxFails == 2       \* failed rotations that are counted

NoKey == <<>>

\* now.strftime("%Y-%m") in the n-th month, the first being November 2026
current_key(n) == <<2026 + (n + 9) \div 12, ((n + 9) % 12) + 1>>

\* strptime(key, "%Y-%m").strftime("%m.%Y")
_archive_name(key) == <<key[2], ".", key[1]>>

RotateFails == {"none", "rename", "add", "header"}

\* SheetSync.rotate_to_archive on the tabs b = [main, header, archives]
RotateToArchive(b, archive_tab_name, fail) ==
    LET refused == fail = "rename" \/ archive_tab_name \in b.archives
        b1 == IF b.main /\ ~refused
              THEN [main |-> FALSE, header |-> FALSE,
                    archives |-> b.archives \cup {archive_tab_name}]
              ELSE b
        b2 == [b1 EXCEPT !.main = TRUE]
        b3 == [b2 EXCEPT !.header = TRUE]
    IN  IF b.main /\ refused THEN [tabs |-> b, raised |-> TRUE]
        ELSE IF ~b1.main /\ fail = "add" THEN [tabs |-> b1, raised |-> TRUE]
        ELSE IF fail = "header" THEN [tabs |-> b2, raised |-> TRUE]
        ELSE [tabs |-> b3, raised |-> FALSE]

\* check_and_rotate_sheet with the stored key advanced whether or not
\* rotate_to_archive returned
check_and_rotate_sheet_AdvancesAnyway(s, now_key, fail) ==
    IF s.key = NoKey THEN [key |-> now_key, tabs |-> s.tabs, called |-> FALSE, ok |-> FALSE]
    ELSE IF s.key = now_key THEN [key |-> s.key, tabs |-> s.tabs, called |-> FALSE, ok |-> FALSE]
    ELSE LET r == RotateToArchive(s.tabs, _archive_name(s.key), fail)
         IN  [key |-> now_key, tabs |-> r.tabs, called |-> TRUE, ok |-> ~r.raised]

\* SyncService.check_and_rotate_sheet on s = [key, tabs]
check_and_rotate_sheet(s, now_key, fail) ==
    IF s.key = NoKey THEN [key |-> now_key, tabs |-> s.tabs, called |-> FALSE, ok |-> FALSE]
    ELSE IF s.key = now_key THEN [key |-> s.key, tabs |-> s.tabs, called |-> FALSE, ok |-> FALSE]
    ELSE LET r == RotateToArchive(s.tabs, _archive_name(s.key), fail)
         IN  [key |-> IF r.raised THEN s.key ELSE now_key,
              tabs |-> r.tabs, called |-> TRUE, ok |-> ~r.raised]

NoCheck == [any |-> FALSE, called |-> FALSE, ok |-> FALSE, before |-> NoKey,
            now |-> NoKey, tabs |-> [main |-> TRUE, header |-> TRUE, archives |-> {}]]

InitPeriod ==
    /\ StoreIdle /\ EventsIdle /\ TokenIdle /\ ClientIdle /\ clock = 0
    /\ crm = [e \in BatchLeadIds |-> 4]
    /\ crmOrder = [e \in BatchLeadIds |-> ""]
    /\ undelivered = [e \in BatchLeadIds |-> FALSE]
    /\ known = EmptyMap /\ knownOrder = EmptyMap /\ expiry = EmptyMap
    /\ dedup = EmptyMap /\ dirty = FALSE /\ disk = NoState
    /\ purged = {} /\ deliv = EmptyMap
    /\ wpc = "rotate"
    /\ backoff = 0
    /\ \E k \in {NoKey, current_key(1)} :
           ret = [op |-> "rotate", key |-> k, month |-> 1, main |-> TRUE,
                  header |-> TRUE, archives |-> {}, rolls |-> 0, succ |-> 0, fails |-> 0,
                  last |-> NoCheck]

\* the calendar passes into the next month
MonthRolls ==
    /\ ret.month < MaxMonths
    /\ ret' = [ret EXCEPT !.month = @ + 1, !.rolls = @ + 1]
    /\ UNCHANGED <<wpc, backoff, othersWorker>>

\* the worker calls check_and_rotate_sheet
CheckAndRotate(fail) ==
    LET tabs0 == [main |-> ret.main, header |-> ret.header, archives |-> ret.archives]
        now == current_key(ret.month)
    IN  \E r \in {check_and_rotate_sheet([key |-> ret.key, tabs |-> tabs0], now, fail)} :
        /\ ret' = [ret EXCEPT
                     !.key = r.key,
                     !.main = r.tabs.main,
                     !.header = r.tabs.header,
                     !.archives = r.tabs.archives,
                     !.succ = IF r.called /\ r.ok THEN @ + 1 ELSE @,
                     !.fails = IF r.called /\ ~r.ok THEN Min({@ + 1, MaxFails}) ELSE @,
                     !.last = [any |-> TRUE, called |-> r.called, ok |-> r.ok,
                               before |-> ret.key, now |-> now, tabs |-> tabs0]]
        /\ UNCHANGED <<wpc, backoff, othersWorker>>

\* the webhook handler's _get_or_create_sheet adds the missing tab and
\* writes the missing header
HandlerCreatesTab ==
    /\ ~ret.main \/ ~ret.header
    /\ ret' = [ret EXCEPT !.main = TRUE, !.header = TRUE]
    /\ UNCHANGED <<wpc, backoff, othersWorker>>

NextPeriod ==
    \/ MonthRolls
    \/ \E fail \in RotateFails : CheckAndRotate(fail)
    \/ HandlerCreatesTab

SpecPeriod == InitPeriod /\ [][NextPeriod]_vars

\* the latest call left the tabs as they were
TabsKept ==
    ret'.main = ret.main /\ ret'.header = ret.header /\ ret'.archives = ret.archives

\* C39: check_and_rotate_sheet does not rotate on the first run, where it
\* only records the current period; it does not rotate while the stored key
\* is the current period's, so that the rotations that succeeded, and the
\* archived tabs, are never more than the changes of period; when the stored
\* key is another period's it calls rotate_to_archive, and it advances the
\* stored key exactly when that call returned, so that a rotation that failed
\* is tried again by the next call.
C39_RotationOncePerPeriod ==
    [][\A fail \in RotateFails :
          CheckAndRotate(fail) =>
              /\ ret.key = NoKey =>
                    (ret'.key = current_key(ret.month) /\ ~ret'.last.called /\ TabsKept)
              /\ ret.key = current_key(ret.month) =>
                    (ret'.key = ret.key /\ ~ret'.last.called /\ TabsKept)
              /\ ret.key \notin {NoKey, current_key(ret.month)} =>
                    /\ ret'.last.called
                    /\ ret'.key = IF ret'.last.ok THEN current_key(ret.month) ELSE ret.key
              /\ ret'.succ <= ret'.rolls
              /\ Cardinality(ret'.archives) <= ret'.rolls]_vars

\* a rotation failed, and a later call, for the same stored key, rotated:
\* the tab of the period that ended is archived once and the key is the
\* current period's
C39_Witness ==
    /\ ret.last.called /\ ret.last.ok
    /\ ret.fails >= 1
    /\ ret.rolls = 1
    /\ ret.key = current_key(ret.month)
    /\ ret.archives = {_archive_name(ret.last.before)}
    /\ ret.main /\ ret.header

\* the first run recorded the period and sent nothing to the spreadsheet
C39_WitnessFirstRun ==
    /\ ret.last.any /\ ret.last.before = NoKey
    /\ ret.key = current_key(2)
    /\ ret.archives = {}

====
